---- MODULE Spec2Model ----
(***************************************************************************)
(* Graph data model (src/js/graph.js) and graph algorithms                 *)
(* (src/js/export.js, class GraphAlgorithms) of GRAFITOS.                  *)
(*                                                                         *)
(* JavaScript strings are sequences of one-character strings, so that the  *)
(* id formatting (`node_${n}`), the numeric key of the neighbour ordering  *)
(* (/(\d+)/ and parseInt) and localeCompare are computed, not tabulated.   *)
(* A JavaScript Map is a sequence of entries [k, v] in insertion order.    *)
(***************************************************************************)
EXTENDS Integers, Sequences, FiniteSets, TLC

VARIABLES graph, last, calls, unionFind, unions, history, app

vars == <<graph, last, calls, unionFind, unions, history, app>>

----------------------------------------------------------------------------
(* Bounds of the model *)

\* a run makes at most MaxCalls calls on the graph
MaxCalls == 5

----------------------------------------------------------------------------
(* Strings *)

Str0 == <<>>
sA == <<"A">>
sB == <<"B">>
sC == <<"C">>
sD == <<"D">>
sL == <<"L">>
sNodePrefix == <<"n", "o", "d", "e", "_">>
sEdgePrefix == <<"e", "d", "g", "e", "_">>
sE1 == <<"e", "1">>

DigitChars == <<"0", "1", "2", "3", "4", "5", "6", "7", "8", "9">>

IsDigit(c) == \E i \in 1..10 : DigitChars[i] = c

DigitVal(c) == (CHOOSE i \in 1..10 : DigitChars[i] = c) - 1

\* Number.prototype.toString for a non-negative integer
RECURSIVE toString(_)
toString(n) ==
    IF n < 10 THEN <<DigitChars[n + 1]>>
    ELSE toString(n \div 10) \o <<DigitChars[(n % 10) + 1]>>

\* null; no string is equal to it, a string being a sequence of characters
Null == <<"null">>

\* a value is falsy when it is null or the empty string
Truthy(s) == s # Str0 /\ s # Null

\* the digits of id from position i up to the first character that is none
RECURSIVE DigitRun(_, _)
DigitRun(id, i) ==
    IF i > Len(id) \/ ~IsDigit(id[i]) THEN <<>>
    ELSE <<id[i]>> \o DigitRun(id, i + 1)

\* parseInt of a string of decimal digits
RECURSIVE parseInt(_)
parseInt(digits) ==
    IF digits = <<>> THEN 0
    ELSE 10 * parseInt(SubSeq(digits, 1, Len(digits) - 1))
            + DigitVal(digits[Len(digits)])

\* id.match(/(\d+)/): the first run of digits, as a number; 0 without digits
getNum(id) ==
    IF \E i \in 1..Len(id) : IsDigit(id[i])
    THEN parseInt(DigitRun(id,
            CHOOSE i \in 1..Len(id) :
                IsDigit(id[i]) /\ \A j \in 1..(i - 1) : ~IsDigit(id[j])))
    ELSE 0

LowerChars ==
    <<"a", "b", "c", "d", "e", "f", "g", "h", "i", "j", "k", "l", "m",
      "n", "o", "p", "q", "r", "s", "t", "u", "v", "w", "x", "y", "z">>

UpperChars ==
    <<"A", "B", "C", "D", "E", "F", "G", "H", "I", "J", "K", "L", "M",
      "N", "O", "P", "Q", "R", "S", "T", "U", "V", "W", "X", "Y", "Z">>

IsUpper(c) == \E i \in 1..Len(UpperChars) : UpperChars[i] = c

\* the collation order of the characters ids are made of: the underscore,
\* the digits, then the letters, a capital letter next to its small letter
CollationOrder == <<"_">> \o DigitChars \o LowerChars

ToLower(c) ==
    IF IsUpper(c)
    THEN LowerChars[CHOOSE i \in 1..Len(UpperChars) : UpperChars[i] = c]
    ELSE c

PrimaryKey(s) ==
    [i \in 1..Len(s) |->
        CHOOSE k \in 1..Len(CollationOrder) : CollationOrder[k] = ToLower(s[i])]

\* small letters sort before capital letters where nothing else differs
CaseKey(s) == [i \in 1..Len(s) |-> IF IsUpper(s[i]) THEN 1 ELSE 0]

\* lexicographic comparison of two sequences of numbers: -1, 0 or 1
RECURSIVE CompareKeys(_, _)
CompareKeys(ka, kb) ==
    IF ka = <<>> /\ kb = <<>> THEN 0
    ELSE IF ka = <<>> THEN -1
    ELSE IF kb = <<>> THEN 1
    ELSE IF Head(ka) < Head(kb) THEN -1
    ELSE IF Head(ka) > Head(kb) THEN 1
    ELSE CompareKeys(Tail(ka), Tail(kb))

\* String.prototype.localeCompare on ids
localeCompare(a, b) ==
    LET primary == CompareKeys(PrimaryKey(a), PrimaryKey(b))
    IN  IF primary # 0 THEN primary ELSE CompareKeys(CaseKey(a), CaseKey(b))

----------------------------------------------------------------------------
(* Map *)

MapKeys(m) == {m[i].k : i \in 1..Len(m)}

MapHas(m, key) == \E i \in 1..Len(m) : m[i].k = key

MapGet(m, key) == m[CHOOSE i \in 1..Len(m) : m[i].k = key].v

MapValues(m) == [i \in 1..Len(m) |-> m[i].v]

\* set keeps the position of a key that is present and appends a new one
MapSet(m, key, val) ==
    IF MapHas(m, key)
    THEN [i \in 1..Len(m) |-> IF m[i].k = key THEN [k |-> key, v |-> val] ELSE m[i]]
    ELSE Append(m, [k |-> key, v |-> val])

MapDelete(m, key) == SelectSeq(m, LAMBDA e : e.k # key)

\* Object.fromEntries(map): a plain object lists its integer-like keys first,
\* in ascending order, and then the other keys in insertion order
IsIndexKey(s) ==
    /\ s # <<>>
    /\ \A i \in 1..Len(s) : IsDigit(s[i])
    /\ (Len(s) = 1 \/ s[1] # "0")

RECURSIVE InsertIndexKey(_, _)
InsertIndexKey(e, sorted) ==
    IF sorted = <<>> THEN <<e>>
    ELSE IF parseInt(e.k) < parseInt(Head(sorted).k) THEN <<e>> \o sorted
    ELSE <<Head(sorted)>> \o InsertIndexKey(e, Tail(sorted))

RECURSIVE SortIndexKeys(_)
SortIndexKeys(entries) ==
    IF entries = <<>> THEN <<>>
    ELSE InsertIndexKey(Head(entries), SortIndexKeys(Tail(entries)))

ObjectFromEntries(m) ==
    SortIndexKeys(SelectSeq(m, LAMBDA e : IsIndexKey(e.k)))
        \o SelectSeq(m, LAMBDA e : ~IsIndexKey(e.k))

----------------------------------------------------------------------------
(* Graph *)

NewGraph ==
    [nodes |-> <<>>, edges |-> <<>>, isDirected |-> FALSE, isWeighted |-> FALSE,
     nodeIdCounter |-> 1, edgeIdCounter |-> 1]

NoError == "none"

setGraphType(g, directed, weighted) ==
    [g EXCEPT !.isDirected = directed, !.isWeighted = weighted]

\* the result of a call: the graph after it and the error it threw, if any
addNode(g, id, label, x, y) ==
    LET gen == ~Truthy(id)
        id1 == IF gen THEN sNodePrefix \o toString(g.nodeIdCounter) ELSE id
        g1  == IF gen THEN [g EXCEPT !.nodeIdCounter = @ + 1] ELSE g
        node == [id |-> id1, label |-> IF Truthy(label) THEN label ELSE id1,
                 x |-> x, y |-> y, data |-> <<>>]
    IN  IF MapHas(g1.nodes, id1)
        THEN [graph |-> g1, error |-> "DuplicateId"]
        ELSE [graph |-> [g1 EXCEPT !.nodes = MapSet(@, id1, node)], error |-> NoError]

\* removeNode with the cascade restricted to the edges that leave the node
removeNodeSourceOnly(g, nodeId) ==
    IF ~MapHas(g.nodes, nodeId)
    THEN [graph |-> g, value |-> FALSE]
    ELSE [graph |-> [g EXCEPT
                       !.edges = SelectSeq(@, LAMBDA e : e.v.source # nodeId),
                       !.nodes = MapDelete(@, nodeId)],
          value |-> TRUE]

removeNode(g, nodeId) ==
    IF ~MapHas(g.nodes, nodeId)
    THEN [graph |-> g, value |-> FALSE]
    ELSE LET edgesToRemove ==
                 {g.edges[i].k : i \in {j \in 1..Len(g.edges) :
                     g.edges[j].v.source = nodeId \/ g.edges[j].v.target = nodeId}}
         IN  [graph |-> [g EXCEPT
                            !.edges = SelectSeq(@, LAMBDA e : e.k \notin edgesToRemove),
                            !.nodes = MapDelete(@, nodeId)],
              value |-> TRUE]

\* the duplicate test with the reversed pair left out
edgeExistsForwardOnly(g, sourceId, targetId) ==
    \E i \in 1..Len(g.edges) :
        g.edges[i].v.source = sourceId /\ g.edges[i].v.target = targetId

\* the duplicate test of addEdge over the stored edges
edgeExists(g, sourceId, targetId) ==
    IF ~g.isDirected
    THEN \E i \in 1..Len(g.edges) :
            \/ g.edges[i].v.source = sourceId /\ g.edges[i].v.target = targetId
            \/ g.edges[i].v.source = targetId /\ g.edges[i].v.target = sourceId
    ELSE \E i \in 1..Len(g.edges) :
            g.edges[i].v.source = sourceId /\ g.edges[i].v.target = targetId

addEdge(g, sourceId, targetId, weight, label, id) ==
    IF ~MapHas(g.nodes, sourceId) \/ ~MapHas(g.nodes, targetId)
    THEN [graph |-> g, error |-> "MissingEndpoint"]
    ELSE LET gen == ~Truthy(id)
             id1 == IF gen THEN sEdgePrefix \o toString(g.edgeIdCounter) ELSE id
             g1  == IF gen THEN [g EXCEPT !.edgeIdCounter = @ + 1] ELSE g
             edge == [id |-> id1, source |-> sourceId, target |-> targetId,
                      weight |-> IF g.isWeighted THEN weight ELSE 1,
                      label |-> IF Truthy(label) THEN label
                                ELSE IF g.isWeighted THEN toString(weight) ELSE Str0,
                      directed |-> g.isDirected]
         IN  IF edgeExists(g1, sourceId, targetId)
             THEN [graph |-> g1, error |-> "DuplicateEdge"]
             ELSE [graph |-> [g1 EXCEPT !.edges = MapSet(@, id1, edge)],
                   error |-> NoError]

removeEdge(g, edgeId) ==
    [graph |-> [g EXCEPT !.edges = MapDelete(@, edgeId)],
     value |-> MapHas(g.edges, edgeId)]

\* the loop of getNeighbors from edge i on; neighbors is the Set built so far
RECURSIVE collectNeighbors(_, _, _, _)
collectNeighbors(g, nodeId, i, neighbors) ==
    IF i > Len(g.edges) THEN neighbors
    ELSE LET edge == g.edges[i].v
             add(x) == IF \E j \in 1..Len(neighbors) : neighbors[j] = x
                       THEN neighbors ELSE Append(neighbors, x)
         IN  collectNeighbors(g, nodeId, i + 1,
                IF edge.source = nodeId THEN add(edge.target)
                ELSE IF ~g.isDirected /\ edge.target = nodeId THEN add(edge.source)
                ELSE neighbors)

getNeighbors(g, nodeId) == collectNeighbors(g, nodeId, 1, <<>>)

\* Infinity is modelled as -1: no stored weight is negative
Infinity == -1

getEdgeWeight(g, sourceId, targetId) ==
    LET hit(i) == \/ g.edges[i].v.source = sourceId /\ g.edges[i].v.target = targetId
                  \/ /\ ~g.isDirected
                     /\ g.edges[i].v.source = targetId
                     /\ g.edges[i].v.target = sourceId
    IN  IF \E i \in 1..Len(g.edges) : hit(i)
        THEN g.edges[CHOOSE i \in 1..Len(g.edges) :
                        hit(i) /\ \A j \in 1..(i - 1) : ~hit(j)].v.weight
        ELSE Infinity

\* Object.assign(target, properties)
ObjectAssign(obj, properties) ==
    [f \in DOMAIN obj \cup DOMAIN properties |->
        IF f \in DOMAIN properties THEN properties[f] ELSE obj[f]]

updateNode(g, nodeId, properties) ==
    IF MapHas(g.nodes, nodeId)
    THEN [g EXCEPT !.nodes =
            MapSet(@, nodeId, ObjectAssign(MapGet(g.nodes, nodeId), properties))]
    ELSE g

updateNodePosition(g, nodeId, x, y) ==
    IF MapHas(g.nodes, nodeId)
    THEN [g EXCEPT !.nodes =
            MapSet(@, nodeId, [MapGet(g.nodes, nodeId) EXCEPT !.x = x, !.y = y])]
    ELSE g

updateEdge(g, edgeId, properties) ==
    IF MapHas(g.edges, edgeId)
    THEN [g EXCEPT !.edges =
            MapSet(@, edgeId, ObjectAssign(MapGet(g.edges, edgeId), properties))]
    ELSE g

clear(g) ==
    [g EXCEPT !.nodes = <<>>, !.edges = <<>>, !.nodeIdCounter = 1, !.edgeIdCounter = 1]

toJSON(g) ==
    [nodes |-> MapValues(g.nodes), edges |-> MapValues(g.edges),
     isDirected |-> g.isDirected, isWeighted |-> g.isWeighted,
     nodeIdCounter |-> g.nodeIdCounter, edgeIdCounter |-> g.edgeIdCounter]

\* nodes.set(node.id, {...node}) for each element of a list, in order
RECURSIVE SetAll(_, _)
SetAll(m, list) ==
    IF list = <<>> THEN m
    ELSE SetAll(MapSet(m, Head(list).id, Head(list)), Tail(list))

\* data.f || dflt for a flag and for a counter
FlagOr(data, f) == IF f \in DOMAIN data THEN data[f] ELSE FALSE
CounterOr(data, f) == IF f \in DOMAIN data /\ data[f] # 0 THEN data[f] ELSE 1

fromJSON(g, data) ==
    LET g0 == clear(g)
    IN  [g0 EXCEPT
            !.isDirected = FlagOr(data, "isDirected"),
            !.isWeighted = FlagOr(data, "isWeighted"),
            !.nodeIdCounter = CounterOr(data, "nodeIdCounter"),
            !.edgeIdCounter = CounterOr(data, "edgeIdCounter"),
            !.nodes = IF "nodes" \in DOMAIN data THEN SetAll(<<>>, data.nodes) ELSE <<>>,
            !.edges = IF "edges" \in DOMAIN data THEN SetAll(<<>>, data.edges) ELSE <<>>]

----------------------------------------------------------------------------
(* GraphAlgorithms *)

\* the comparator of the neighbour sort: negative when a goes before b
compareNeighbors(a, b) ==
    LET numA == getNum(a)
        numB == getNum(b)
    IN  IF numA # numB THEN numA - numB ELSE localeCompare(a, b)

\* Array.prototype.sort with that comparator (a stable sort)
RECURSIVE InsertSorted(_, _)
InsertSorted(x, sorted) ==
    IF sorted = <<>> THEN <<x>>
    ELSE IF compareNeighbors(x, Head(sorted)) <= 0 THEN <<x>> \o sorted
    ELSE <<Head(sorted)>> \o InsertSorted(x, Tail(sorted))

\* the neighbours left in the order getNeighbors returns them
keepNeighborOrder(neighbors) == neighbors

RECURSIVE sortNeighbors(_)
sortNeighbors(neighbors) ==
    IF neighbors = <<>> THEN <<>>
    ELSE InsertSorted(Head(neighbors), sortNeighbors(Tail(neighbors)))

\* the value of a Map lookup that finds nothing
Undefined == <<"undefined">>

\* the loop of reconstructPath: unshift current, then follow its parent. A
\* node without an entry yields undefined, which is not null: the loop then
\* never ends, and the walk stands for that run with the path <<Undefined>>
RECURSIVE walkParents(_, _, _)
walkParents(parent, current, path) ==
    IF current = Null THEN path
    ELSE IF ~MapHas(parent, current) THEN <<Undefined>>
    ELSE walkParents(parent, MapGet(parent, current), <<current>> \o path)

\* reconstructPath with push in the place of unshift
reconstructPathPush(parent, start, end) ==
    LET path == walkParents(parent, end, <<>>)
        pushed == [i \in 1..Len(path) |-> path[Len(path) + 1 - i]]
    IN  IF pushed # <<>> /\ pushed[1] = start THEN pushed ELSE <<>>

reconstructPath(parent, start, end) ==
    LET path == walkParents(parent, end, <<>>)
    IN  IF path # <<>> /\ path[1] = start THEN path ELSE <<>>

\* the body of the neighbour loop of bfs with the number of nodes visited so
\* far as the distance
bfsVisitCountingVisits(st, currentNode, neighbor) ==
    IF neighbor \in st.visited THEN st
    ELSE [st EXCEPT !.visited = @ \cup {neighbor},
                    !.parent = MapSet(@, neighbor, currentNode),
                    !.distance = MapSet(@, neighbor, Len(st.visitOrder)),
                    !.queue = Append(@, neighbor)]

\* the body of the neighbour loop of bfs
bfsVisit(st, currentNode, neighbor) ==
    IF neighbor \in st.visited THEN st
    ELSE [st EXCEPT !.visited = @ \cup {neighbor},
                    !.parent = MapSet(@, neighbor, currentNode),
                    !.distance = MapSet(@, neighbor,
                                        MapGet(st.distance, currentNode) + 1),
                    !.queue = Append(@, neighbor)]

RECURSIVE bfsForEach(_, _, _)
bfsForEach(st, currentNode, neighbors) ==
    IF neighbors = <<>> THEN st
    ELSE bfsForEach(bfsVisit(st, currentNode, Head(neighbors)),
                    currentNode, Tail(neighbors))

\* the while loop of bfs
RECURSIVE bfsLoop(_, _, _)
bfsLoop(g, targetNodeId, st) ==
    IF st.queue = <<>> THEN st
    ELSE LET currentNode == Head(st.queue)
             st1 == [st EXCEPT !.queue = Tail(@),
                               !.visitOrder = Append(@, currentNode)]
         IN  IF Truthy(targetNodeId) /\ currentNode = targetNodeId
             THEN [st1 EXCEPT !.found = TRUE]
             ELSE bfsLoop(g, targetNodeId,
                          bfsForEach(st1, currentNode,
                                     sortNeighbors(getNeighbors(g, currentNode))))

bfs(g, startNodeId, targetNodeId) ==
    LET st == bfsLoop(g, targetNodeId,
                 [queue |-> <<startNodeId>>, visited |-> {startNodeId},
                  visitOrder |-> <<>>,
                  parent |-> <<[k |-> startNodeId, v |-> Null]>>,
                  distance |-> <<[k |-> startNodeId, v |-> 0]>>,
                  found |-> FALSE])
        finalPath ==
            IF Truthy(targetNodeId) /\ st.found
            THEN reconstructPath(st.parent, startNodeId, targetNodeId)
            ELSE IF ~Truthy(targetNodeId) THEN st.visitOrder ELSE <<>>
        shortestDistance ==
            IF Truthy(targetNodeId) /\ st.found
            THEN MapGet(st.distance, targetNodeId) ELSE -1
    IN  [algorithm |-> "BFS", startNode |-> startNodeId,
         targetNode |-> targetNodeId, visitOrder |-> st.visitOrder,
         path |-> finalPath,
         found |-> IF Truthy(targetNodeId) THEN st.found ELSE TRUE,
         distance |-> shortestDistance,
         distances |-> ObjectFromEntries(st.distance),
         statistics |-> [nodesVisited |-> Cardinality(st.visited),
                         totalNodes |-> Len(g.nodes),
                         pathLength |-> Len(finalPath)]]

----------------------------------------------------------------------------
(* UnionFind *)

NewUnionFind(elements) ==
    [parent |-> [i \in 1..Len(elements) |-> [k |-> elements[i], v |-> elements[i]]],
     rank   |-> [i \in 1..Len(elements) |-> [k |-> elements[i], v |-> 0]]]

\* what find returns once the parent of element is settled
findReturn(uf, element) == [uf |-> uf, value |-> MapGet(uf.parent, element)]

\* this.parent.set(element, root), root being what the inner find returned
findCompress(r, element) ==
    findReturn([r.uf EXCEPT !.parent = MapSet(@, element, r.value)], element)

\* find compresses the path: it returns the root and the object it leaves
RECURSIVE find(_, _)
find(uf, element) ==
    IF MapGet(uf.parent, element) # element
    THEN findCompress(find(uf, MapGet(uf.parent, element)), element)
    ELSE findReturn(uf, element)

\* union that finds both roots and links nothing
unionWithoutLink(uf, element1, element2) ==
    find(find(uf, element1).uf, element2).uf

\* the rank comparison of union on two distinct roots
linkByRank(uf, root1, root2, rank1, rank2) ==
    IF rank1 < rank2 THEN [uf EXCEPT !.parent = MapSet(@, root1, root2)]
    ELSE IF rank1 > rank2 THEN [uf EXCEPT !.parent = MapSet(@, root2, root1)]
    ELSE [uf EXCEPT !.parent = MapSet(@, root2, root1),
                    !.rank = MapSet(@, root1, rank1 + 1)]

link(uf, root1, root2) ==
    IF root1 = root2 THEN uf
    ELSE linkByRank(uf, root1, root2, MapGet(uf.rank, root1), MapGet(uf.rank, root2))

\* f1 and f2 are what find(element1) and then find(element2) returned
unionRoots(f1, f2) == link(f2.uf, f1.value, f2.value)

unionSecond(f1, element2) == unionRoots(f1, find(f1.uf, element2))

union(uf, element1, element2) == unionSecond(find(uf, element1), element2)

connectedRoots(f1, f2) == [uf |-> f2.uf, value |-> f1.value = f2.value]

connectedSecond(f1, element2) == connectedRoots(f1, find(f1.uf, element2))

connected(uf, element1, element2) == connectedSecond(find(uf, element1), element2)

----------------------------------------------------------------------------
(* GraphAlgorithms: dfs *)

\* a call that throws yields the Error thrown
Error(message) == [error |-> message]

\* getNode(nodeId) is truthy exactly when the node map has the key
hasNode(g, nodeId) == MapHas(g.nodes, nodeId)

getEdges(g) == MapValues(g.edges)

\* the body of the push loop of dfs, recording as parent the node on top of
\* the stack
dfsPushStackTopParent(st, currentNode, neighbor) ==
    IF neighbor \in st.visited THEN st
    ELSE [st EXCEPT !.stack = Append(@, neighbor),
                    !.parent = IF MapHas(@, neighbor) THEN @
                               ELSE MapSet(@, neighbor,
                                      IF st.stack = <<>> THEN currentNode
                                      ELSE st.stack[Len(st.stack)])]

\* the body of the push loop of dfs
dfsPush(st, currentNode, neighbor) ==
    IF neighbor \in st.visited THEN st
    ELSE [st EXCEPT !.stack = Append(@, neighbor),
                    !.parent = IF MapHas(@, neighbor) THEN @
                               ELSE MapSet(@, neighbor, currentNode)]

\* the push loop running from the first neighbour to the last
RECURSIVE dfsPushAllForward(_, _, _, _)
dfsPushAllForward(st, currentNode, neighbors, i) ==
    IF i < 1 THEN st
    ELSE dfsPushAllForward(dfsPush(st, currentNode, neighbors[Len(neighbors) + 1 - i]),
                           currentNode, neighbors, i - 1)

\* for (let i = neighbors.length - 1; i >= 0; i--)
RECURSIVE dfsPushAll(_, _, _, _)
dfsPushAll(st, currentNode, neighbors, i) ==
    IF i < 1 THEN st
    ELSE dfsPushAll(dfsPush(st, currentNode, neighbors[i]),
                    currentNode, neighbors, i - 1)

\* the while loop of dfsIterative
\* the while loop of dfsIterative: pop, skip a visited node, visit, stop at
\* the target, push the sorted neighbours from the last to the first
RECURSIVE dfsIterative(_, _, _)
dfsExpand(g, targetNodeId, st, currentNode, neighbors) ==
    dfsIterative(g, targetNodeId,
                 dfsPushAll(st, currentNode, neighbors, Len(neighbors)))

dfsVisit(g, targetNodeId, st, currentNode) ==
    IF Truthy(targetNodeId) /\ currentNode = targetNodeId
    THEN [st EXCEPT !.visited = @ \cup {currentNode},
                    !.visitOrder = Append(@, currentNode),
                    !.found = TRUE]
    ELSE dfsExpand(g, targetNodeId,
                   [st EXCEPT !.visited = @ \cup {currentNode},
                              !.visitOrder = Append(@, currentNode)],
                   currentNode, sortNeighbors(getNeighbors(g, currentNode)))

dfsPop(g, targetNodeId, popped, currentNode) ==
    IF currentNode \in popped.visited
    THEN dfsIterative(g, targetNodeId, popped)
    ELSE dfsVisit(g, targetNodeId, popped, currentNode)

dfsIterative(g, targetNodeId, st) ==
    IF st.stack = <<>> THEN st
    ELSE dfsPop(g, targetNodeId,
                [st EXCEPT !.stack = SubSeq(@, 1, Len(@) - 1)],
                st.stack[Len(st.stack)])

\* the record dfs returns
dfsReturn(g, startNodeId, targetNodeId, st, finalPath) ==
    [algorithm |-> "DFS", startNode |-> startNodeId,
     targetNode |-> targetNodeId, visitOrder |-> st.visitOrder,
     path |-> finalPath,
     found |-> IF Truthy(targetNodeId) THEN st.found ELSE TRUE,
     distance |->
        IF Truthy(targetNodeId)
        THEN IF st.found /\ Len(finalPath) > 0 THEN Len(finalPath) - 1 ELSE -1
        ELSE IF Len(finalPath) > 0 THEN Len(finalPath) - 1 ELSE 0,
     isComplete |-> ~Truthy(targetNodeId),
     statistics |-> [nodesVisited |-> Cardinality(st.visited),
                     totalNodes |-> Len(g.nodes),
                     pathLength |-> Len(finalPath),
                     searchType |-> IF Truthy(targetNodeId)
                                    THEN "targeted" ELSE "complete"]]

\* the path is built once the traversal is over
dfsFinish(g, startNodeId, targetNodeId, st) ==
    dfsReturn(g, startNodeId, targetNodeId, st,
              IF Truthy(targetNodeId)
              THEN IF st.found
                   THEN reconstructPath(st.parent, startNodeId, targetNodeId)
                   ELSE <<>>
              ELSE st.visitOrder)

dfs(g, startNodeId, targetNodeId) ==
    IF ~hasNode(g, startNodeId)
    THEN Error("El nodo inicial no existe")
    ELSE IF Truthy(targetNodeId) /\ ~hasNode(g, targetNodeId)
    THEN Error("El nodo objetivo no existe")
    ELSE dfsFinish(g, startNodeId, targetNodeId,
            dfsIterative(g, targetNodeId,
                 [stack |-> <<startNodeId>>, visited |-> {},
                  visitOrder |-> <<>>,
                  parent |-> <<[k |-> startNodeId, v |-> Null]>>,
                  found |-> FALSE]))

----------------------------------------------------------------------------
(* GraphAlgorithms: kruskal, prim, compareMST *)

\* parseFloat(weight) of a number: the number is written out and read back
parseFloat(weight) == parseInt(toString(weight))

\* .map(edge => ({...edge, weight: parseFloat(edge.weight)}))
kruskalEdgeCopies(edges) ==
    [i \in 1..Len(edges) |-> [edges[i] EXCEPT !.weight = parseFloat(@)]]

\* .sort((a, b) => a.weight - b.weight), a stable sort
RECURSIVE InsertByWeight(_, _)
InsertByWeight(x, sorted) ==
    IF sorted = <<>> THEN <<x>>
    ELSE IF x.weight - Head(sorted).weight <= 0 THEN <<x>> \o sorted
    ELSE <<Head(sorted)>> \o InsertByWeight(x, Tail(sorted))

\* the sort with the comparator b.weight - a.weight
RECURSIVE sortByWeightDescending(_)
sortByWeightDescending(edges) ==
    IF edges = <<>> THEN <<>>
    ELSE LET rest == sortByWeightDescending(Tail(edges))
             x == Head(edges)
             before == SelectSeq(rest, LAMBDA e : e.weight > x.weight)
             after == SelectSeq(rest, LAMBDA e : e.weight <= x.weight)
         IN  before \o <<x>> \o after

RECURSIVE sortByWeight(_)
sortByWeight(edges) ==
    IF edges = <<>> THEN <<>>
    ELSE InsertByWeight(Head(edges), sortByWeight(Tail(edges)))

\* the accepted edges over the number of nodes, not over n - 1
efficiencyOverNodes(g, mstEdges) ==
    IF Len(g.nodes) > 1
    THEN [num |-> Len(mstEdges) * 100, den |-> Len(g.nodes)]
    ELSE [num |-> 0, den |-> 1]

\* (mstEdges / (n - 1)) * 100 is a fraction: it is kept as num / den
efficiency(g, mstEdges) ==
    IF Len(g.nodes) > 1
    THEN [num |-> Len(mstEdges) * 100, den |-> Len(g.nodes) - 1]
    ELSE [num |-> 0, den |-> 1]

\* the branch of the loop body: c is what connected(source, target) returned
kruskalAccept(st, edge, c) ==
    IF ~c.value
    THEN [st EXCEPT !.unionFind = union(c.uf, edge.source, edge.target),
                    !.mstEdges = Append(@, edge),
                    !.totalWeight = @ + edge.weight]
    ELSE [st EXCEPT !.unionFind = c.uf]

\* steps.push(step), with the currentMST of after the branch
kruskalRecord(st, edge, c) ==
    [st EXCEPT !.steps =
        Append(@, [edge |-> edge,
                   action |-> IF ~c.value THEN "added" ELSE "rejected",
                   reason |-> IF ~c.value THEN "No forma ciclo"
                              ELSE "Formaria un ciclo",
                   currentMST |-> st.mstEdges])]

kruskalConsider(st, edge, c) == kruskalRecord(kruskalAccept(st, edge, c), edge, c)

kruskalStep(st, edge) ==
    kruskalConsider(st, edge, connected(st.unionFind, edge.source, edge.target))

\* the for loop of kruskal from edge i on, with its break at n - 1 edges
RECURSIVE kruskalLoop(_, _, _, _)
kruskalBreak(g, edges, i, st) ==
    IF Len(st.mstEdges) = Len(g.nodes) - 1 THEN st
    ELSE kruskalLoop(g, edges, i + 1, st)

kruskalLoop(g, edges, i, st) ==
    IF i > Len(edges) THEN st
    ELSE kruskalBreak(g, edges, i, kruskalStep(st, edges[i]))

\* Array.from(this.graph.nodes.keys())
nodeKeys(g) == [i \in 1..Len(g.nodes) |-> g.nodes[i].k]

\* the record kruskal returns
kruskalReturn(g, edges, st) ==
    [algorithm |-> "Kruskal", mstEdges |-> st.mstEdges,
     totalWeight |-> st.totalWeight, steps |-> st.steps,
     statistics |-> [originalEdges |-> Len(edges),
                     mstEdges |-> Len(st.mstEdges),
                     totalNodes |-> Len(g.nodes),
                     efficiency |-> efficiency(g, st.mstEdges)]]

kruskalRun(g, edges) ==
    kruskalReturn(g, edges,
        kruskalLoop(g, edges, 1,
            [mstEdges |-> <<>>, unionFind |-> NewUnionFind(nodeKeys(g)),
             steps |-> <<>>, totalWeight |-> 0]))

\* kruskal without the test of isWeighted
kruskalUnchecked(g) == kruskalRun(g, sortByWeight(kruskalEdgeCopies(getEdges(g))))

kruskal(g) ==
    IF ~g.isWeighted
    THEN Error("El algoritmo de Kruskal requiere un grafo ponderado")
    ELSE kruskalRun(g, sortByWeight(kruskalEdgeCopies(getEdges(g))))

\* weight < minWeight, where either may be Infinity
LessThan(weight, minWeight) ==
    /\ weight # Infinity
    /\ (minWeight = Infinity \/ weight < minWeight)

\* let minEdge = null
NullEdge == [id |-> Null]

\* the edge that the inner loop of prim settles on for (nodeInMST, neighbor)
primEdgeOf(g, nodeInMST, neighbor) ==
    LET edges == getEdges(g)
        hit(i) == \/ edges[i].source = nodeInMST /\ edges[i].target = neighbor
                  \/ /\ ~g.isDirected
                     /\ edges[i].source = neighbor
                     /\ edges[i].target = nodeInMST
    IN  IF \E i \in 1..Len(edges) : hit(i)
        THEN edges[CHOOSE i \in 1..Len(edges) :
                      hit(i) /\ \A j \in 1..(i - 1) : ~hit(j)]
        ELSE NullEdge

\* minWeight = weight, and minEdge the edge found, if one is found
primTake(weight, edge, min) ==
    [minWeight |-> weight,
     minEdge |-> IF edge.id # Null THEN edge ELSE min.minEdge]

\* the body of the loop over the neighbours of one node of inMST
primConsider(g, inMST, nodeInMST, neighbor, weight, min) ==
    IF (\A k \in 1..Len(inMST) : inMST[k] # neighbor)
       /\ LessThan(weight, min.minWeight)
    THEN primTake(weight, primEdgeOf(g, nodeInMST, neighbor), min)
    ELSE min

RECURSIVE primNeighbors(_, _, _, _, _)
primNeighbors(g, inMST, nodeInMST, neighbors, min) ==
    IF neighbors = <<>> THEN min
    ELSE primNeighbors(g, inMST, nodeInMST, Tail(neighbors),
            primConsider(g, inMST, nodeInMST, Head(neighbors),
                         getEdgeWeight(g, nodeInMST, Head(neighbors)), min))

\* the loop over inMST from its i-th element on
RECURSIVE primScan(_, _, _, _)
primScan(g, inMST, i, min) ==
    IF i > Len(inMST) THEN min
    ELSE primScan(g, inMST, i + 1,
                  primNeighbors(g, inMST, inMST[i],
                                getNeighbors(g, inMST[i]), min))

\* inMST.has(x)
inMSTHas(inMST, x) == \E k \in 1..Len(inMST) : inMST[k] = x

\* the state after minEdge is pushed and newNode added
primPush(st, min, mstEdges, newNode, inMST) ==
    [inMST |-> inMST, mstEdges |-> mstEdges,
     steps |-> Append(st.steps,
                  [edge |-> min.minEdge, action |-> "added",
                   newNode |-> newNode, currentMST |-> mstEdges,
                   nodesInMST |-> inMST]),
     totalWeight |-> st.totalWeight + min.minWeight]

primAdd(st, min, newNode) ==
    primPush(st, min, Append(st.mstEdges, min.minEdge), newNode,
             IF inMSTHas(st.inMST, newNode) THEN st.inMST
             ELSE Append(st.inMST, newNode))

\* the while loop of prim
RECURSIVE primLoop(_, _, _)
primGrow(g, nodes, st, min) ==
    IF min.minEdge.id = Null THEN st
    ELSE primLoop(g, nodes,
            primAdd(st, min,
                    IF inMSTHas(st.inMST, min.minEdge.source)
                    THEN min.minEdge.target ELSE min.minEdge.source))

primLoop(g, nodes, st) ==
    IF ~(Len(st.inMST) < Len(nodes)) THEN st
    ELSE primGrow(g, nodes, st,
                  primScan(g, st.inMST, 1,
                           [minEdge |-> NullEdge, minWeight |-> Infinity]))

\* the record prim returns
primReturn(g, nodes, startNodeId, st) ==
    [algorithm |-> "Prim", startNode |-> startNodeId,
     mstEdges |-> st.mstEdges, totalWeight |-> st.totalWeight,
     steps |-> st.steps,
     statistics |-> [totalNodes |-> Len(g.nodes),
                     mstEdges |-> Len(st.mstEdges),
                     nodesReached |-> Len(st.inMST),
                     isComplete |-> Len(st.inMST) = Len(nodes),
                     efficiency |-> efficiency(g, st.mstEdges)]]

primFrom(g, nodes, startNodeId) ==
    primReturn(g, nodes, startNodeId,
        primLoop(g, nodes,
                 [inMST |-> <<startNodeId>>, mstEdges |-> <<>>,
                  steps |-> <<>>, totalWeight |-> 0]))

prim(g, startNodeId) ==
    IF ~g.isWeighted
    THEN Error("El algoritmo de Prim requiere un grafo ponderado")
    ELSE IF Len(g.nodes) = 0
    THEN [mstEdges |-> <<>>, totalWeight |-> 0, steps |-> <<>>]
    ELSE primFrom(g, nodeKeys(g),
                  IF ~Truthy(startNodeId) THEN g.nodes[1].k ELSE startNodeId)

\* NaN is modelled as -1: no id converts to a negative number
NaN == -1

\* the number a string converts to in Math.min and Math.max
ToNumber(s) ==
    IF s = <<>> THEN 0
    ELSE IF \A i \in 1..Len(s) : IsDigit(s[i]) THEN parseInt(s)
    ELSE NaN

\* Math.min and Math.max of two numbers, NaN when either is NaN
minOf(x, y) == IF x = NaN \/ y = NaN THEN NaN ELSE IF x <= y THEN x ELSE y

maxOf(x, y) == IF x = NaN \/ y = NaN THEN NaN ELSE IF x >= y THEN x ELSE y

MathMin(a, b) == minOf(ToNumber(a), ToNumber(b))

MathMax(a, b) == maxOf(ToNumber(a), ToNumber(b))

\* `${Math.min(source, target)}-${Math.max(source, target)}-${weight}`
normalize(edge) ==
    <<MathMin(edge.source, edge.target), MathMax(edge.source, edge.target),
      edge.weight>>

\* new Set(edges.map(normalize))
normalizedSet(edges) == {normalize(edges[i]) : i \in 1..Len(edges)}

sameSets(set1, set2) ==
    IF Cardinality(set1) # Cardinality(set2) THEN FALSE
    ELSE set1 \subseteq set2

areMSTsIdentical(edges1, edges2) ==
    IF Len(edges1) # Len(edges2) THEN FALSE
    ELSE sameSets(normalizedSet(edges1), normalizedSet(edges2))

\* |a - b| < 0.001 on integers
SameWeight(a, b) == a = b

\* the record compareMST returns
compareResults(kruskalResult, primResult) ==
    [algorithms |-> <<"Kruskal", "Prim">>,
     results |-> [kruskal |-> kruskalResult, prim |-> primResult],
     comparison |->
        [sameWeight |-> SameWeight(kruskalResult.totalWeight,
                                   primResult.totalWeight),
         kruskalWeight |-> kruskalResult.totalWeight,
         primWeight |-> primResult.totalWeight,
         kruskalEdges |-> Len(kruskalResult.mstEdges),
         primEdges |-> Len(primResult.mstEdges),
         identical |-> areMSTsIdentical(kruskalResult.mstEdges,
                                        primResult.mstEdges)]]

\* catch (error) { throw new Error(`Error al comparar MST: ${error.message}`) }
compareCaught(r) ==
    IF "error" \in DOMAIN r
    THEN Error("Error al comparar MST")
    ELSE r

\* prim runs once kruskal has returned
comparePrim(g, kruskalResult) ==
    IF "error" \in DOMAIN kruskalResult THEN kruskalResult
    ELSE compareResults(kruskalResult, prim(g, Null))

compareMST(g) == compareCaught(comparePrim(g, kruskal(g)))

----------------------------------------------------------------------------
(* GraphAlgorithms: the calls built on bfs, detectCycles, connectivityAnalysis *)

shortestPathReturn(bfsResult, startNodeId, targetNodeId) ==
    [algorithm |-> "Shortest Path (BFS)", startNode |-> startNodeId,
     targetNode |-> targetNodeId, path |-> bfsResult.path,
     distance |-> bfsResult.distance, found |-> bfsResult.found,
     hops |-> bfsResult.distance]

shortestPath(g, startNodeId, targetNodeId) ==
    shortestPathReturn(bfs(g, startNodeId, targetNodeId), startNodeId, targetNodeId)

hasPathReturn(bfsResult) ==
    [hasPath |-> bfsResult.found, path |-> bfsResult.path,
     distance |-> bfsResult.distance]

hasPath(g, startNodeId, targetNodeId) ==
    hasPathReturn(bfs(g, startNodeId, targetNodeId))

\* Object.keys(distances).length is the number of entries
shortestDistancesReturn(bfsResult, startNodeId) ==
    [startNode |-> startNodeId, distances |-> bfsResult.distances,
     reachableNodes |-> Len(bfsResult.distances)]

shortestDistances(g, startNodeId) ==
    shortestDistancesReturn(bfs(g, startNodeId, Null), startNodeId)

\* path.indexOf(x), counted from 1; 0 when x is not in path
indexOf(path, x) ==
    IF \E i \in 1..Len(path) : path[i] = x
    THEN CHOOSE i \in 1..Len(path) : path[i] = x /\ \A j \in 1..(i - 1) : path[j] # x
    ELSE 0

\* dfsForCycles(node, path, parent) and its loop over the neighbours; st holds
\* the visited set and the cycles found, which every call shares
RECURSIVE dfsForCycles(_, _, _, _, _), dfsForCyclesLoop(_, _, _, _, _, _)
dfsForCycles(g, st, node, path, parent) ==
    dfsForCyclesLoop(g, [st EXCEPT !.visited = @ \cup {node}],
                     node, Append(path, node), parent, getNeighbors(g, node))

dfsForCyclesLoop(g, st, node, path, parent, neighbors) ==
    IF neighbors = <<>> THEN st
    ELSE LET neighbor == Head(neighbors)
             pathIndex == indexOf(path, neighbor)
             st1 == IF neighbor = parent /\ ~g.isDirected THEN st
                    ELSE IF pathIndex # 0
                    THEN [st EXCEPT !.cycles =
                            Append(@, Append(SubSeq(path, pathIndex, Len(path)),
                                             neighbor))]
                    ELSE IF neighbor \notin st.visited
                    THEN dfsForCycles(g, st, neighbor, path, node)
                    ELSE st
         IN  dfsForCyclesLoop(g, st1, node, path, parent, Tail(neighbors))

RECURSIVE detectCyclesFrom(_, _, _)
detectCyclesFrom(g, i, st) ==
    IF i > Len(g.nodes) THEN st
    ELSE detectCyclesFrom(g, i + 1,
            IF g.nodes[i].k \notin st.visited
            THEN dfsForCycles(g, st, g.nodes[i].k, <<>>, Null)
            ELSE st)

detectCycles(g) == detectCyclesFrom(g, 1, [visited |-> {}, cycles |-> <<>>]).cycles

\* for (const neighbor of neighbors) if (!visited.has(neighbor)) stack.push(neighbor)
pushUnvisited(stack, visited, neighbors) ==
    stack \o SelectSeq(neighbors, LAMBDA x : x \notin visited)

\* the while loop that collects one component
RECURSIVE componentLoop(_, _)
componentLoop(g, st) ==
    IF st.stack = <<>> THEN st
    ELSE LET current == st.stack[Len(st.stack)]
             rest == SubSeq(st.stack, 1, Len(st.stack) - 1)
         IN  IF current \in st.visited
             THEN componentLoop(g, [st EXCEPT !.stack = rest])
             ELSE LET visited == st.visited \cup {current}
                  IN  componentLoop(g,
                         [stack |-> pushUnvisited(rest, visited,
                                                  getNeighbors(g, current)),
                          visited |-> visited,
                          component |-> Append(st.component, current)])

RECURSIVE componentsFrom(_, _, _)
componentsFrom(g, i, st) ==
    IF i > Len(g.nodes) THEN st
    ELSE componentsFrom(g, i + 1,
            IF g.nodes[i].k \notin st.visited
            THEN LET c == componentLoop(g, [stack |-> <<g.nodes[i].k>>,
                                            visited |-> st.visited,
                                            component |-> <<>>])
                 IN  [visited |-> c.visited,
                      components |-> Append(st.components, c.component)]
            ELSE st)

\* components.reduce((largest, current) => current.length > largest.length ? ...)
RECURSIVE largestOf(_, _)
largestOf(components, largest) ==
    IF components = <<>> THEN largest
    ELSE largestOf(Tail(components),
                   IF Len(Head(components)) > Len(largest)
                   THEN Head(components) ELSE largest)

connectivityReturn(components) ==
    [isConnected |-> Len(components) <= 1,
     componentCount |-> Len(components),
     components |-> components,
     largestComponent |-> largestOf(components, <<>>)]

connectivityAnalysis(g) ==
    connectivityReturn(
        componentsFrom(g, 1, [visited |-> {}, components |-> <<>>]).components)

\* Graph.isConnected: every node is reached from the first key
isConnected(g) ==
    IF Len(g.nodes) <= 1 THEN TRUE
    ELSE Cardinality(componentLoop(g, [stack |-> <<g.nodes[1].k>>,
                                       visited |-> {},
                                       component |-> <<>>]).visited)
            = Len(g.nodes)

----------------------------------------------------------------------------
(* Graph.hasCycles *)

\* the state once hasCycleDFS has returned: its value is found
cycleFound(st) == [st EXCEPT !.found = TRUE]

\* recursionStack.delete(nodeId); return false
cycleLeave(st, nodeId) ==
    [st EXCEPT !.recursionStack = @ \ {nodeId}]

\* visited.add(nodeId); recursionStack.add(nodeId)
cycleEnter(st, nodeId) ==
    [st EXCEPT !.visited = @ \cup {nodeId}, !.recursionStack = @ \cup {nodeId}]

\* if (!this.isDirected && neighbor === parent) continue
skipParent(g, neighbor, parent) == ~g.isDirected /\ neighbor = parent

RECURSIVE hasCycleDFS(_, _, _, _)
RECURSIVE hasCycleNeighbors(_, _, _, _, _, _)
RECURSIVE hasCycleAfter(_, _, _, _, _, _)

\* what the loop does once the recursive call on neighbors[i] has returned
hasCycleAfter(g, r, nodeId, parent, neighbors, i) ==
    IF r.found THEN r
    ELSE hasCycleNeighbors(g, r, nodeId, parent, neighbors, i + 1)

\* for (const neighbor of neighbors), from the i-th neighbour on
hasCycleNeighbors(g, st, nodeId, parent, neighbors, i) ==
    IF i > Len(neighbors) THEN cycleLeave(st, nodeId)
    ELSE IF skipParent(g, neighbors[i], parent)
    THEN hasCycleNeighbors(g, st, nodeId, parent, neighbors, i + 1)
    ELSE IF neighbors[i] \notin st.visited
    THEN hasCycleAfter(g, hasCycleDFS(g, st, neighbors[i], nodeId),
                       nodeId, parent, neighbors, i)
    ELSE IF neighbors[i] \in st.recursionStack
    THEN cycleFound(st)
    ELSE hasCycleNeighbors(g, st, nodeId, parent, neighbors, i + 1)

hasCycleDFS(g, st, nodeId, parent) ==
    hasCycleNeighbors(g, cycleEnter(st, nodeId), nodeId, parent,
                      getNeighbors(g, nodeId), 1)

\* for (const nodeId of this.nodes.keys()), from the i-th key on
RECURSIVE hasCyclesFrom(_, _, _)
hasCyclesNext(g, i, r) ==
    IF r.found THEN TRUE ELSE hasCyclesFrom(g, i + 1, r)

hasCyclesFrom(g, i, st) ==
    IF i > Len(g.nodes) THEN FALSE
    ELSE IF g.nodes[i].k \in st.visited THEN hasCyclesFrom(g, i + 1, st)
    ELSE hasCyclesNext(g, i, hasCycleDFS(g, st, g.nodes[i].k, Null))

hasCycles(g) ==
    IF Len(g.nodes) <= 2 THEN FALSE
    ELSE hasCyclesFrom(g, 1,
            [visited |-> {}, recursionStack |-> {}, found |-> FALSE])

----------------------------------------------------------------------------
(* Graph.getStatistics: the density *)

\* nodeCount * (nodeCount - 1), halved when the graph is not directed
maxPossibleEdges(g) ==
    IF g.isDirected
    THEN Len(g.nodes) * (Len(g.nodes) - 1)
    ELSE (Len(g.nodes) * (Len(g.nodes) - 1)) \div 2

\* (edgeCount / maxPossibleEdges) * 100 is a fraction: it is kept as
\* num / den, before it is rounded to two decimals
density(g) ==
    IF Len(g.nodes) > 1
    THEN [num |-> Len(g.edges) * 100, den |-> maxPossibleEdges(g)]
    ELSE [num |-> 0, den |-> 1]

----------------------------------------------------------------------------
(* GraphHistory *)

\* this.maxHistorySize = 50
maxHistorySize == 50

\* what localStorage holds under storageKey: nothing, or the history and the
\* currentIndex of the last saveToStorage
NoStorage == [present |-> FALSE, history |-> <<>>, currentIndex |-> -1]

\* the fields after the constructor has run on an empty localStorage
NewGraphHistory == [history |-> <<>>, currentIndex |-> -1, storage |-> NoStorage]

\* localStorage.setItem(storageKey, JSON.stringify({history, currentIndex}))
\* JSON.stringify copies every state: the copy shares no object with the graph
stringified(states) ==
    [i \in 1..Len(states) |->
        [states[i] EXCEPT !.sharedNodes = {}, !.sharedEdges = {},
                          !.taken = states[i].graph]]

saveToStorage(h) ==
    [h EXCEPT !.storage = [present |-> TRUE, history |-> stringified(h.history),
                           currentIndex |-> h.currentIndex]]

\* parsed.currentIndex || -1: 0 is falsy
currentIndexOr(currentIndex) == IF currentIndex = 0 THEN -1 ELSE currentIndex

\* the constructor on a reload: empty fields, then loadFromStorage
loadFromStorage(h) ==
    IF h.storage.present
    THEN [h EXCEPT !.history = h.storage.history,
                   !.currentIndex = currentIndexOr(h.storage.currentIndex)]
    ELSE [h EXCEPT !.history = <<>>, !.currentIndex = -1]

\* the state saveState builds; id and timestamp are left out, the
\* statistics are a function of the graph
\* toJSON puts the node and edge objects of the graph themselves in its
\* arrays: sharedNodes and sharedEdges are the ids whose object in the
\* snapshot is still the one the graph holds, and taken is the snapshot as it
\* was when saveState ran
historyState(g, algorithmResults, description) ==
    [graph |-> toJSON(g), algorithmResults |-> algorithmResults,
     description |-> description,
     sharedNodes |-> MapKeys(g.nodes), sharedEdges |-> MapKeys(g.edges),
     taken |-> toJSON(g)]

\* this.history.slice(0, this.currentIndex + 1) when states lie ahead
dropFuture(h) ==
    IF h.currentIndex < Len(h.history) - 1
    THEN [h EXCEPT !.history = SubSeq(h.history, 1, h.currentIndex + 1)]
    ELSE h

\* this.history.push(state); this.currentIndex = this.history.length - 1
pushState(h, state) ==
    [h EXCEPT !.history = Append(h.history, state),
              !.currentIndex = Len(h.history)]

\* this.history.shift(); this.currentIndex-- when the history is over its size
shiftOldest(h) ==
    IF Len(h.history) > maxHistorySize
    THEN [h EXCEPT !.history = Tail(h.history), !.currentIndex = @ - 1]
    ELSE h

saveState(h, g, algorithmResults, description) ==
    saveToStorage(shiftOldest(pushState(dropFuture(h),
        historyState(g, algorithmResults, description))))

\* the calls return the state, or null: value is the index of the state
\* returned, -1 for null
getPreviousState(h) ==
    IF h.currentIndex > 0
    THEN [history |-> [h EXCEPT !.currentIndex = @ - 1], value |-> h.currentIndex - 1]
    ELSE [history |-> h, value |-> -1]

getNextState(h) ==
    IF h.currentIndex < Len(h.history) - 1
    THEN [history |-> [h EXCEPT !.currentIndex = @ + 1], value |-> h.currentIndex + 1]
    ELSE [history |-> h, value |-> -1]

\* getCurrentState: the index of the state returned, -1 for null
getCurrentState(h) ==
    IF h.currentIndex >= 0 /\ h.currentIndex < Len(h.history)
    THEN h.currentIndex ELSE -1

\* this.history.splice(index, 1): index counts from 0
splice(states, index) ==
    [i \in 1..(Len(states) - 1) |->
        IF i <= index THEN states[i] ELSE states[i + 1]]

maxOfIndex(a, b) == IF a >= b THEN a ELSE b

minOfIndex(a, b) == IF a <= b THEN a ELSE b

\* removeState(id): index is what findIndex returned for the id, -1 when no
\* state has it
removeState(h, index) ==
    IF index # -1
    THEN saveToStorage(
            [h EXCEPT !.history = splice(h.history, index),
                      !.currentIndex = IF h.currentIndex >= index
                                       THEN maxOfIndex(0, h.currentIndex - 1)
                                       ELSE h.currentIndex])
    ELSE h

clearHistory(h) ==
    saveToStorage([h EXCEPT !.history = <<>>, !.currentIndex = -1])

\* createBranch(description): the copy of the current state is pushed
createBranch(h, description) ==
    IF getCurrentState(h) = -1 THEN h
    ELSE saveToStorage(pushState(h,
            [h.history[getCurrentState(h) + 1] EXCEPT !.description = description]))

\* the branch of importHistory that appends, with the cut to maxHistorySize
importAppend(h, all) ==
    IF Len(all) > maxHistorySize
    THEN [h EXCEPT !.history = SubSeq(all, Len(all) - maxHistorySize + 1, Len(all)),
                   !.currentIndex =
                        maxOfIndex(0, h.currentIndex - (Len(all) - maxHistorySize))]
    ELSE [h EXCEPT !.history = all]

\* importHistory(jsonData, replaceExisting) on a file whose type is
\* 'graph_history': imported is data.history
importHistory(h, imported, replaceExisting) ==
    saveToStorage(
        IF replaceExisting
        THEN [h EXCEPT !.history = imported,
                       !.currentIndex = minOfIndex(h.currentIndex, Len(imported) - 1)]
        ELSE importAppend(h, h.history \o imported))

----------------------------------------------------------------------------
(* GraphApp *)

\* this.lastAlgorithmResults = null
NoResults == [algorithm |-> "null"]

\* this.currentAlgorithmParams = null
NoParams == [startNode |-> Null, endNode |-> Null]

\* the fields after the constructor has run; pendingSave is the description
\* of the saveToHistory that waits behind the await of a run, null when no
\* run is being animated
NewGraphApp ==
    [lastAlgorithmResults |-> NoResults, currentAlgorithm |-> Null,
     currentAlgorithmParams |-> NoParams, autoRecalculate |-> TRUE,
     pendingSave |-> Null]

sDfs == <<"d", "f", "s">>

\* the objects of a snapshot after the graph has changed some of its objects
\* in place: a shared object shows the change
aliasedList(list, shared, m) ==
    [i \in 1..Len(list) |->
        IF list[i].id \in shared THEN MapGet(m, list[i].id) ELSE list[i]]

aliasedState(s, g) ==
    [s EXCEPT !.graph.nodes = aliasedList(s.graph.nodes, s.sharedNodes, g.nodes),
              !.graph.edges = aliasedList(s.graph.edges, s.sharedEdges, g.edges)]

aliasedHistory(h, g) ==
    [h EXCEPT !.history = [i \in 1..Len(h.history) |-> aliasedState(h.history[i], g)]]

\* the snapshots after the maps of the graph have dropped objects: only the
\* objects under nodeIds and edgeIds are still the graph's
releasedHistory(h, nodeIds, edgeIds) ==
    [h EXCEPT !.history = [i \in 1..Len(h.history) |->
        [h.history[i] EXCEPT !.sharedNodes = @ \cap nodeIds,
                             !.sharedEdges = @ \cap edgeIds]]]

clearAlgorithmState(a) ==
    [a EXCEPT !.currentAlgorithm = Null, !.currentAlgorithmParams = NoParams,
              !.lastAlgorithmResults = NoResults]

\* the case 'dfs' of the switch and the catch around it
recalculateDfs(a, dfsResult) ==
    IF "error" \in DOMAIN dfsResult THEN clearAlgorithmState(a)
    ELSE [a EXCEPT !.lastAlgorithmResults = dfsResult]

\* endNode && !getNode(endNode): the end node is forgotten
keptEndNode(g, endNode) ==
    IF Truthy(endNode) /\ ~hasNode(g, endNode) THEN Null ELSE endNode

recalculateWith(a, g, startNode, endNode) ==
    recalculateDfs([a EXCEPT !.currentAlgorithmParams.endNode = endNode],
                   dfs(g, startNode, endNode))

\* recalculateAlgorithmIfNeeded up to its first await, for the algorithm
\* 'dfs'; currentAlgorithmParams is null exactly when currentAlgorithm is
recalculateAlgorithmIfNeeded(a, g) ==
    IF ~a.autoRecalculate \/ a.currentAlgorithm = Null THEN a
    ELSE IF ~hasNode(g, a.currentAlgorithmParams.startNode)
    THEN clearAlgorithmState(a)
    ELSE recalculateWith(a, g, a.currentAlgorithmParams.startNode,
                         keptEndNode(g, a.currentAlgorithmParams.endNode))

\* saveToHistory(description)
saveToHistory(a, h, g, description) ==
    saveState(h, g, a.lastAlgorithmResults, description)

\* runDFS up to its await: the result is kept and the save waits; a throw of
\* dfs is caught and nothing is saved
ranDfs(a, result, description) ==
    IF "error" \in DOMAIN result THEN a
    ELSE [a EXCEPT !.lastAlgorithmResults = result, !.pendingSave = description]

runDFS(a, g, startNode, endNode, description) ==
    ranDfs([a EXCEPT !.currentAlgorithm = sDfs,
                     !.currentAlgorithmParams =
                         [startNode |-> startNode,
                          endNode |-> IF Truthy(endNode) THEN endNode ELSE Null]],
           dfs(g, startNode, IF Truthy(endNode) THEN endNode ELSE Null),
           description)

----------------------------------------------------------------------------
(* Inputs of the calls *)

sN1 == sNodePrefix \o <<"1">>

\* ids a caller passes: two chosen ids, and one that has the generated form
NodeIdArgs == {sA, sB, sN1}

\* ids a caller refers to: every node key of the graph, and the chosen ids
NodeRefs(g) == MapKeys(g.nodes) \cup {sA, sB}

EdgeIdArgs == {sE1}

EdgeRefs(g) == MapKeys(g.edges) \cup {sE1}

Weights == {1, 2}

\* properties passed to updateNode: a label, or an id field
NodeProperties == {[label |-> sL], [id |-> sB]}

\* properties passed to updateEdge: weight and label (the edge dialog), an
\* emptied label (the weighted switch), or an endpoint
EdgeProperties ==
    {[weight |-> 2, label |-> toString(2)], [label |-> Str0], [target |-> sN1]}

\* documents handed to fromJSON by the file loader: a saved directed weighted
\* graph, and a hand-written file without flags and counters whose edge
\* names a node the file does not hold
WellFormedDoc ==
    [nodes |-> <<[id |-> sA, label |-> sA, x |-> 0, y |-> 0, data |-> <<>>],
                 [id |-> sB, label |-> sB, x |-> 0, y |-> 0, data |-> <<>>]>>,
     edges |-> <<[id |-> sE1, source |-> sA, target |-> sB, weight |-> 2,
                  label |-> toString(2), directed |-> TRUE]>>,
     isDirected |-> TRUE, isWeighted |-> TRUE,
     nodeIdCounter |-> 1, edgeIdCounter |-> 1]

DanglingDoc ==
    [nodes |-> <<[id |-> sA, label |-> sA, x |-> 0, y |-> 0, data |-> <<>>]>>,
     edges |-> <<[id |-> sE1, source |-> sA, target |-> sB, weight |-> 1,
                  label |-> Str0, directed |-> FALSE]>>]

JSONDocs == {WellFormedDoc, DanglingDoc}

----------------------------------------------------------------------------
(* The calls on the application's graph *)

\* the last call: its name, its id arguments, and what it returned or threw
Call(op, a1, a2, result) ==
    [op |-> op, a1 |-> a1, a2 |-> a2, a3 |-> Null, result |-> result]

Init ==
    /\ graph = NewGraph
    /\ last = Call("new", Null, Null, NoError)
    /\ calls = 0
    /\ unionFind = NewUnionFind(<<>>)
    /\ unions = {}
    /\ history = NewGraphHistory
    /\ app = NewGraphApp

\* one more call is made
Tick ==
    /\ calls < MaxCalls
    /\ calls' = calls + 1
    /\ UNCHANGED <<unionFind, unions, history, app>>

SetGraphType ==
    /\ Tick
    /\ \E directed \in BOOLEAN, weighted \in BOOLEAN :
        /\ graph' = setGraphType(graph, directed, weighted)
        /\ last' = Call("setGraphType", Null, Null, NoError)

AddNode ==
    /\ Tick
    /\ \E id \in NodeIdArgs \cup {Null} :
        LET r == addNode(graph, id, Str0, 0, 0)
        IN  /\ graph' = r.graph
            /\ last' = Call("addNode", id, Null, r.error)

RemoveNode ==
    /\ Tick
    /\ \E nodeId \in NodeRefs(graph) :
        LET r == removeNode(graph, nodeId)
        IN  /\ graph' = r.graph
            /\ last' = Call("removeNode", nodeId, Null, r.value)

AddEdge ==
    /\ Tick
    /\ \E sourceId \in NodeRefs(graph), targetId \in NodeRefs(graph),
          weight \in Weights, id \in EdgeIdArgs \cup {Null} :
        LET r == addEdge(graph, sourceId, targetId, weight, Str0, id)
        IN  /\ graph' = r.graph
            /\ last' = [Call("addEdge", sourceId, targetId, r.error)
                            EXCEPT !.a3 = id]

RemoveEdge ==
    /\ Tick
    /\ \E edgeId \in EdgeRefs(graph) :
        LET r == removeEdge(graph, edgeId)
        IN  /\ graph' = r.graph
            /\ last' = Call("removeEdge", edgeId, Null, r.value)

UpdateNode ==
    /\ Tick
    /\ \E nodeId \in NodeRefs(graph), properties \in NodeProperties :
        /\ graph' = updateNode(graph, nodeId, properties)
        /\ last' = Call("updateNode", nodeId, Null, NoError)

UpdateEdge ==
    /\ Tick
    /\ \E edgeId \in EdgeRefs(graph), properties \in EdgeProperties :
        /\ graph' = updateEdge(graph, edgeId, properties)
        /\ last' = Call("updateEdge", edgeId, Null, NoError)

Clear ==
    /\ Tick
    /\ graph' = clear(graph)
    /\ last' = Call("clear", Null, Null, NoError)

FromJSON ==
    /\ Tick
    /\ \E data \in JSONDocs :
        /\ graph' = fromJSON(graph, data)
        /\ last' = Call("fromJSON", Null, Null, NoError)

\* a snapshot of the graph loaded into another Graph object, which held
\* nothing, the same graph, or the first document
RoundTrip ==
    /\ Tick
    /\ \E h \in {NewGraph, graph, fromJSON(NewGraph, WellFormedDoc)} :
        /\ graph' = graph
        /\ last' = Call("roundTrip", Null, Null, fromJSON(h, toJSON(graph)))

Next ==
    \/ SetGraphType
    \/ AddNode
    \/ RemoveNode
    \/ AddEdge
    \/ RemoveEdge
    \/ UpdateNode
    \/ UpdateEdge
    \/ Clear
    \/ FromJSON
    \/ RoundTrip

Spec == Init /\ [][Next]_vars

----------------------------------------------------------------------------
(* The algorithms on graphs built by addNode and addEdge *)

\* a graph of the algorithm runs holds at most MaxAlgEdges edges
MaxAlgEdges == 4

sS2 == <<"S", "2">>
sS10 == <<"S", "1", "0">>

\* the node ids of a graph are the first ids of one of these lists
AlgNodeFamilies == {<<sA, sB, sC, sD>>, <<sS10, sS2, sN1, sA>>}

\* the pairs (source, target) of positions in a list of n ids; an undirected
\* graph is given each pair in one orientation
AlgPairs(n, directed) ==
    {p \in (1..n) \X (1..n) : directed \/ p[1] <= p[2]}

RECURSIVE addNodes(_, _)
addNodes(g, ids) ==
    IF ids = <<>> THEN g
    ELSE addNodes(addNode(g, Head(ids), Head(ids), 0, 0).graph, Tail(ids))

RECURSIVE addEdges(_, _, _)
addEdges(g, ids, pairs) ==
    IF pairs = <<>> THEN g
    ELSE addEdges(addEdge(g, ids[Head(pairs)[1]], ids[Head(pairs)[2]],
                          1, Str0, Null).graph,
                  ids, Tail(pairs))

\* setGraphType, then the nodes, then the edges row by row
buildGraph(ids, directed, pairSet) ==
    LET n == Len(ids)
        all == [k \in 1..(n * n) |-> <<((k - 1) \div n) + 1, ((k - 1) % n) + 1>>]
    IN  addEdges(addNodes(setGraphType(NewGraph, directed, FALSE), ids),
                 ids, SelectSeq(all, LAMBDA p : p \in pairSet))

InitAlg ==
    /\ \E family \in AlgNodeFamilies :
         \E n \in 1..Len(family), directed \in BOOLEAN :
           \E pairSet \in SUBSET AlgPairs(n, directed) :
              /\ Cardinality(pairSet) <= MaxAlgEdges
              /\ graph = buildGraph(SubSeq(family, 1, n), directed, pairSet)
    /\ last = Call("new", Null, Null, NoError)
    /\ calls = 0
    /\ unionFind = NewUnionFind(<<>>)
    /\ unions = {}
    /\ history = NewGraphHistory
    /\ app = NewGraphApp

\* an id that no graph of the algorithm runs holds
sZ == <<"Z">>

\* ids a caller of an algorithm passes: every node key, and the absent id
NodeArgs(g) == MapKeys(g.nodes) \cup {sZ}

\* this.graph after a method of GraphAlgorithms has run: the methods read the
\* graph through its readers, sizes and flags, sort only arrays that the
\* readers built for them, and assign to no field of the graph
graphAfterCallSortingEdges(g) ==
    [g EXCEPT !.edges =
        LET sorted == sortByWeight(MapValues(g.edges))
        IN  [i \in 1..Len(sorted) |-> [k |-> sorted[i].id, v |-> sorted[i]]]]

graphAfterCall(g) == g

\* a call is made on the graph as drawn: a call reads no result of an
\* earlier call
Fresh == last.op = "new"

\* what a call of GraphAlgorithms leaves besides its result
AlgorithmFrame ==
    /\ graph' = graphAfterCall(graph)
    /\ UNCHANGED <<calls, unionFind, unions, history, app>>

Bfs ==
    /\ Fresh
    /\ \E startNodeId \in NodeArgs(graph),
          targetNodeId \in NodeArgs(graph) \cup {Null} :
         last' = Call("bfs", startNodeId, targetNodeId,
                      bfs(graph, startNodeId, targetNodeId))
    /\ AlgorithmFrame

Dfs ==
    /\ Fresh
    /\ \E startNodeId \in NodeArgs(graph),
          targetNodeId \in NodeArgs(graph) \cup {Null} :
         last' = Call("dfs", startNodeId, targetNodeId,
                      dfs(graph, startNodeId, targetNodeId))
    /\ AlgorithmFrame

Kruskal ==
    /\ Fresh
    /\ last' = Call("kruskal", Null, Null, kruskal(graph))
    /\ AlgorithmFrame

Prim ==
    /\ Fresh
    /\ \E startNodeId \in NodeArgs(graph) \cup {Null} :
         last' = Call("prim", startNodeId, Null, prim(graph, startNodeId))
    /\ AlgorithmFrame

CompareMST ==
    /\ Fresh
    /\ last' = Call("compareMST", Null, Null, compareMST(graph))
    /\ AlgorithmFrame

DetectCycles ==
    /\ Fresh
    /\ last' = Call("detectCycles", Null, Null, detectCycles(graph))
    /\ AlgorithmFrame

ConnectivityAnalysis ==
    /\ Fresh
    /\ last' = Call("connectivityAnalysis", Null, Null, connectivityAnalysis(graph))
    /\ AlgorithmFrame

ShortestPath ==
    /\ Fresh
    /\ \E startNodeId \in NodeArgs(graph), targetNodeId \in NodeArgs(graph) :
         last' = Call("shortestPath", startNodeId, targetNodeId,
                      shortestPath(graph, startNodeId, targetNodeId))
    /\ AlgorithmFrame

HasPath ==
    /\ Fresh
    /\ \E startNodeId \in NodeArgs(graph), targetNodeId \in NodeArgs(graph) :
         last' = Call("hasPath", startNodeId, targetNodeId,
                      hasPath(graph, startNodeId, targetNodeId))
    /\ AlgorithmFrame

ShortestDistances ==
    /\ Fresh
    /\ \E startNodeId \in NodeArgs(graph) :
         last' = Call("shortestDistances", startNodeId, Null,
                      shortestDistances(graph, startNodeId))
    /\ AlgorithmFrame

\* the orders in which the same nodes and edges are inserted once more
Reorderings == {"reverse", "rotate", "swap"}

reorder(seq, how) ==
    IF Len(seq) < 2 THEN seq
    ELSE IF how = "reverse" THEN [i \in 1..Len(seq) |-> seq[Len(seq) + 1 - i]]
    ELSE IF how = "rotate" THEN Append(Tail(seq), Head(seq))
    ELSE <<seq[2], seq[1]>> \o SubSeq(seq, 3, Len(seq))

RECURSIVE cloneNodes(_, _)
cloneNodes(h, nodes) ==
    IF nodes = <<>> THEN h
    ELSE cloneNodes(addNode(h, Head(nodes).id, Head(nodes).label,
                            Head(nodes).x, Head(nodes).y).graph,
                    Tail(nodes))

RECURSIVE cloneEdges(_, _)
cloneEdges(h, edges) ==
    IF edges = <<>> THEN h
    ELSE cloneEdges(addEdge(h, Head(edges).source, Head(edges).target,
                            Head(edges).weight, Head(edges).label,
                            Head(edges).id).graph,
                    Tail(edges))

\* the graph built like clone() builds it, the nodes and the edges of g being
\* inserted in another order
rebuild(g, how) ==
    LET h == cloneEdges(cloneNodes(setGraphType(NewGraph, g.isDirected, g.isWeighted),
                                   reorder(MapValues(g.nodes), how)),
                        reorder(MapValues(g.edges), how))
    IN  [h EXCEPT !.nodeIdCounter = g.nodeIdCounter,
                  !.edgeIdCounter = g.edgeIdCounter]

\* the traversal of the graph and of the graph built in another order
bothOrders(how, first, second) == [how |-> how, first |-> first, second |-> second]

DfsReordered ==
    /\ Fresh
    /\ \E how \in Reorderings, startNodeId \in MapKeys(graph.nodes),
          targetNodeId \in MapKeys(graph.nodes) \cup {Null} :
         last' = Call("dfsReordered", startNodeId, targetNodeId,
                      bothOrders(how, dfs(graph, startNodeId, targetNodeId),
                                 dfs(rebuild(graph, how), startNodeId, targetNodeId)))
    /\ AlgorithmFrame

BfsReordered ==
    /\ Fresh
    /\ \E how \in Reorderings, startNodeId \in MapKeys(graph.nodes),
          targetNodeId \in MapKeys(graph.nodes) \cup {Null} :
         last' = Call("bfsReordered", startNodeId, targetNodeId,
                      bothOrders(how, bfs(graph, startNodeId, targetNodeId),
                                 bfs(rebuild(graph, how), startNodeId, targetNodeId)))
    /\ AlgorithmFrame

NextAlg ==
    \/ Bfs
    \/ Dfs

SpecAlg == InitAlg /\ [][NextAlg]_vars

----------------------------------------------------------------------------
(* The traversals of one graph built in two orders *)

\* a graph built twice holds at most MaxOrderEdges edges
MaxOrderEdges == 3

InitOrder ==
    /\ \E family \in AlgNodeFamilies :
         \E n \in 1..Len(family), directed \in BOOLEAN :
           \E pairSet \in {ps \in SUBSET AlgPairs(n, directed) :
                              Cardinality(ps) <= MaxOrderEdges} :
              graph = buildGraph(SubSeq(family, 1, n), directed, pairSet)
    /\ last = Call("new", Null, Null, NoError)
    /\ calls = 0
    /\ unionFind = NewUnionFind(<<>>)
    /\ unions = {}
    /\ history = NewGraphHistory
    /\ app = NewGraphApp

NextOrder ==
    \/ DfsReordered
    \/ BfsReordered

SpecOrder == InitOrder /\ [][NextOrder]_vars

----------------------------------------------------------------------------
(* Every algorithm on small graphs of either kind *)

\* a graph of these runs holds at most MaxCallEdges edges
MaxCallEdges == 2

RECURSIVE addWeightedEdges(_, _, _, _)
addWeightedEdges(g, ids, pairs, weightOf) ==
    IF pairs = <<>> THEN g
    ELSE addWeightedEdges(addEdge(g, ids[Head(pairs)[1]], ids[Head(pairs)[2]],
                                  weightOf[Head(pairs)], Str0, Null).graph,
                          ids, Tail(pairs), weightOf)

\* setGraphType, then the nodes, then the edges row by row with their weights
buildWeightedGraph(ids, directed, weighted, pairSet, weightOf) ==
    LET n == Len(ids)
        all == [k \in 1..(n * n) |-> <<((k - 1) \div n) + 1, ((k - 1) % n) + 1>>]
    IN  addWeightedEdges(addNodes(setGraphType(NewGraph, directed, weighted), ids),
                         ids,
                         IF n = 0 THEN <<>>
                         ELSE SelectSeq(all, LAMBDA p : p \in pairSet),
                         weightOf)

InitCalls ==
    /\ \E n \in 0..3, directed \in BOOLEAN, weighted \in BOOLEAN :
         \E pairSet \in {ps \in SUBSET AlgPairs(n, directed) :
                            Cardinality(ps) <= MaxCallEdges} :
            \E weightOf \in [pairSet -> Weights] :
               graph = buildWeightedGraph(SubSeq(<<sA, sB, sC>>, 1, n),
                                          directed, weighted, pairSet, weightOf)
    /\ last = Call("new", Null, Null, NoError)
    /\ calls = 0
    /\ unionFind = NewUnionFind(<<>>)
    /\ unions = {}
    /\ history = NewGraphHistory
    /\ app = NewGraphApp

NextCalls ==
    \/ Dfs
    \/ Bfs
    \/ Kruskal
    \/ Prim
    \/ CompareMST
    \/ DetectCycles
    \/ ConnectivityAnalysis
    \/ ShortestPath
    \/ HasPath
    \/ ShortestDistances

SpecCalls == InitCalls /\ [][NextCalls]_vars

----------------------------------------------------------------------------
(* The spanning trees of weighted graphs *)

\* a weighted graph drawn holds at most MaxMstEdges edges
MaxMstEdges == 3

\* the pairs and the weights of the graph A-B(1), B-C(2), A-C(4), C-D(3)
ScenarioWeights ==
    (<<1, 2>> :> 1) @@ (<<2, 3>> :> 2) @@ (<<1, 3>> :> 4) @@ (<<3, 4>> :> 3)

InitMst ==
    /\ \/ \E n \in 0..4, directed \in BOOLEAN :
            \E pairSet \in {ps \in SUBSET AlgPairs(n, directed) :
                               Cardinality(ps) <= MaxMstEdges} :
               \E weightOf \in [pairSet -> Weights] :
                  graph = buildWeightedGraph(SubSeq(<<sA, sB, sC, sD>>, 1, n),
                                             directed, TRUE, pairSet, weightOf)
       \/ graph = buildWeightedGraph(<<sA, sB, sC, sD>>, FALSE, TRUE,
                                     DOMAIN ScenarioWeights, ScenarioWeights)
    /\ last = Call("new", Null, Null, NoError)
    /\ calls = 0
    /\ unionFind = NewUnionFind(<<>>)
    /\ unions = {}
    /\ history = NewGraphHistory
    /\ app = NewGraphApp

NextMst ==
    \/ Kruskal
    \/ Prim
    \/ CompareMST

SpecMst == InitMst /\ [][NextMst]_vars

----------------------------------------------------------------------------
(* UnionFind under any sequence of calls *)

\* the elements the UnionFind is constructed over
Elements == <<sA, sB, sC, sD>>

InitUF ==
    /\ \E n \in 1..Len(Elements) : unionFind = NewUnionFind(SubSeq(Elements, 1, n))
    /\ unions = {}
    /\ history = NewGraphHistory
    /\ app = NewGraphApp
    /\ graph = NewGraph
    /\ last = Call("new", Null, Null, NoError)
    /\ calls = 0

\* the pairs that a chain of the pairs of S joins
RECURSIVE Chained(_, _)
Chained(S, k) ==
    IF k = 0 THEN S
    ELSE Chained(S \cup {p \in {{x, z} : x, z \in UNION S} :
                            \E y \in UNION S : \E x, z \in p :
                               p = {x, z} /\ {x, y} \in S /\ {y, z} \in S},
                 k - 1)

\* unions holds every pair that a chain of the union calls made so far joins
UnionCall ==
    \E element1 \in MapKeys(unionFind.parent), element2 \in MapKeys(unionFind.parent) :
        /\ unionFind' = union(unionFind, element1, element2)
        /\ unions' = Chained(unions \cup {{element1, element2}}, Len(Elements))
        /\ last' = Call("union", element1, element2, NoError)
        /\ UNCHANGED <<graph, calls, history, app>>

FindCall ==
    \E element \in MapKeys(unionFind.parent) :
        LET r == find(unionFind, element)
        IN  /\ unionFind' = r.uf
            /\ last' = Call("find", element, Null, r.value)
            /\ UNCHANGED <<graph, calls, unions, history, app>>

ConnectedCall ==
    \E element1 \in MapKeys(unionFind.parent), element2 \in MapKeys(unionFind.parent) :
        LET r == connected(unionFind, element1, element2)
        IN  /\ unionFind' = r.uf
            /\ last' = Call("connected", element1, element2, r.value)
            /\ UNCHANGED <<graph, calls, unions, history, app>>

NextUF ==
    \/ UnionCall
    \/ FindCall
    \/ ConnectedCall

SpecUF == InitUF /\ [][NextUF]_vars

----------------------------------------------------------------------------
(* The shape of a graph: cycles and components *)

\* hasCycles is called on the graph as built or after a change of its type
HasCycles ==
    /\ last.op # "hasCycles"
    /\ last' = Call("hasCycles", Null, Null, hasCycles(graph))
    /\ AlgorithmFrame

MaxShapeEdges == 4

InitShape ==
    /\ \E n \in 0..4, directed \in BOOLEAN :
         \E pairSet \in {ps \in SUBSET AlgPairs(n, directed) :
                            Cardinality(ps) <= MaxShapeEdges} :
            graph = buildGraph(SubSeq(<<sA, sB, sC, sD>>, 1, n), directed, pairSet)
    /\ last = Call("new", Null, Null, NoError)
    /\ calls = 0
    /\ unionFind = NewUnionFind(<<>>)
    /\ unions = {}
    /\ history = NewGraphHistory
    /\ app = NewGraphApp

NextShape ==
    \/ HasCycles
    \/ ConnectivityAnalysis
    \/ SetGraphType

SpecShape == InitShape /\ [][NextShape]_vars

----------------------------------------------------------------------------
(* The graph under addNode, addEdge, removeNode, removeEdge, generateRandom *)

MaxRandomNodes == 2

\* the pairs (i, j) that the loops of generateRandom go through
RandomPairs(n, directed) ==
    {p \in (1..n) \X (1..n) :
        p[1] # p[2] /\ (directed \/ p[1] < p[2])}

\* pairSet holds the pairs for which Math.random() < edgeProbability, and
\* weightOf the weights drawn for them
generateRandom(g, nodeCount, weighted, directed, pairSet, weightOf) ==
    LET ids == SubSeq(<<sA, sB, sC, sD>>, 1, nodeCount)
        all == [k \in 1..(nodeCount * nodeCount) |->
                   <<((k - 1) \div nodeCount) + 1, ((k - 1) % nodeCount) + 1>>]
    IN  addWeightedEdges(
            addNodes(setGraphType(clear(g), directed, weighted), ids),
            ids,
            IF nodeCount = 0 THEN <<>>
            ELSE SelectSeq(all, LAMBDA p : p \in pairSet),
            weightOf)

GenerateRandom ==
    /\ Tick
    /\ \E nodeCount \in 0..MaxRandomNodes, weighted \in BOOLEAN,
          directed \in BOOLEAN :
         \E pairSet \in SUBSET RandomPairs(nodeCount, directed) :
            \E weightOf \in [pairSet -> IF weighted THEN Weights ELSE {1}] :
               /\ graph' = generateRandom(graph, nodeCount, weighted, directed,
                                          pairSet, weightOf)
               /\ last' = Call("generateRandom", Null, Null, NoError)

NextEdits ==
    \/ AddNode
    \/ AddEdge
    \/ RemoveNode
    \/ RemoveEdge
    \/ GenerateRandom

SpecEdits == Init /\ [][NextEdits]_vars

----------------------------------------------------------------------------
(* GraphHistory under any sequence of calls *)

\* how far over maxHistorySize the calls without a cut may take the history
MaxOverflow == 2

\* the description a caller passes
sDescription == <<"d">>

\* the states of a file that importHistory reads: none, one or two
ImportedHistories ==
    {SubSeq(<<historyState(NewGraph, NoResults, sDescription),
              historyState(NewGraph, NoResults, sDescription)>>, 1, n) : n \in 0..2}

HistoryFrame == UNCHANGED <<graph, calls, unionFind, unions, app>>

SaveState ==
    /\ history' = saveState(history, graph, NoResults, sDescription)
    /\ last' = Call("saveState", Null, Null, NoError)
    /\ HistoryFrame

GetPreviousState ==
    /\ history' = getPreviousState(history).history
    /\ last' = Call("getPreviousState", Null, Null, NoError)
    /\ HistoryFrame

GetNextState ==
    /\ history' = getNextState(history).history
    /\ last' = Call("getNextState", Null, Null, NoError)
    /\ HistoryFrame

\* the id passed is the id of the oldest state, of the current state, of the
\* newest state, or of none
RemovableIndexes(h) ==
    ({0, h.currentIndex, Len(h.history) - 1} \cap (0..(Len(h.history) - 1)))
        \cup {-1}

RemoveState ==
    /\ \E index \in RemovableIndexes(history) :
          history' = removeState(history, index)
    /\ last' = Call("removeState", Null, Null, NoError)
    /\ HistoryFrame

ClearHistory ==
    /\ history' = clearHistory(history)
    /\ last' = Call("clearHistory", Null, Null, NoError)
    /\ HistoryFrame

CreateBranch ==
    /\ Len(history.history) < maxHistorySize + MaxOverflow
    /\ history' = createBranch(history, sDescription)
    /\ last' = Call("createBranch", Null, Null, NoError)
    /\ HistoryFrame

ImportHistory ==
    /\ \E imported \in ImportedHistories, replaceExisting \in BOOLEAN :
          history' = importHistory(history, imported, replaceExisting)
    /\ last' = Call("importHistory", Null, Null, NoError)
    /\ HistoryFrame

\* the page is loaded again: a new GraphHistory reads localStorage
LoadFromStorage ==
    /\ history' = loadFromStorage(history)
    /\ last' = Call("loadFromStorage", Null, Null, NoError)
    /\ HistoryFrame

NextHistory ==
    \/ SaveState
    \/ GetPreviousState
    \/ GetNextState
    \/ RemoveState
    \/ ClearHistory
    \/ CreateBranch
    \/ ImportHistory
    \/ LoadFromStorage

SpecHistory == Init /\ [][NextHistory]_vars

----------------------------------------------------------------------------
(* GraphApp: algorithm runs, edits on the canvas, undo, redo and loads *)

\* the handlers run after init() in one session
MaxAppCalls == 4

\* the sample graph of init() has at most this many nodes here
MaxSampleNodes == 2

sSample == <<"s">>
sManual == <<"m">>
sRun == <<"r">>
sLoaded == <<"l">>

\* init(): generateSampleGraph() on the fresh fields
InitApp ==
    /\ \E nodeCount \in 0..MaxSampleNodes :
         \E pairSet \in SUBSET RandomPairs(nodeCount, FALSE) :
            graph = generateRandom(NewGraph, nodeCount, FALSE, FALSE, pairSet,
                                   [p \in pairSet |-> 1])
    /\ history = saveToHistory(NewGraphApp, NewGraphHistory, graph, sSample)
    /\ app = NewGraphApp
    /\ last = Call("init", Null, Null, NoError)
    /\ calls = 0
    /\ unions = {} /\ unionFind = NewUnionFind(<<>>)

AppTick ==
    /\ calls < MaxAppCalls
    /\ calls' = calls + 1
    /\ UNCHANGED <<unions, unionFind>>

\* onGraphChange after the handler has left the graph as g and the history
\* as h
OnGraphChange(g, h) ==
    /\ graph' = g
    /\ app' = recalculateAlgorithmIfNeeded(app, g)
    /\ history' = saveToHistory(app', h, g, sManual)

\* the options of the start and end selects: the nodes of the graph, and ''
\* for the end
RunDFS ==
    /\ AppTick
    /\ app.pendingSave = Null
    /\ \E startNode \in MapKeys(graph.nodes),
          endNode \in MapKeys(graph.nodes) \cup {Str0} :
         /\ app' = runDFS(app, graph, startNode, endNode, sRun)
         /\ last' = Call("runDFS", startNode, endNode, NoError)
    /\ UNCHANGED <<graph, history>>

\* the animation is over: runDFS goes on behind its await
AnimationEnds ==
    /\ app.pendingSave # Null
    /\ history' = saveToHistory(app, history, graph, app.pendingSave)
    /\ app' = [app EXCEPT !.pendingSave = Null]
    /\ last' = Call("animateDFS", Null, Null, NoError)
    /\ UNCHANGED <<graph, calls, unions, unionFind>>

ToggleAutoRecalculate ==
    /\ AppTick
    /\ app' = [app EXCEPT !.autoRecalculate = ~@]
    /\ last' = Call("autoRecalculate", Null, Null, NoError)
    /\ UNCHANGED <<graph, history>>

\* the save handler of the node dialog
CanvasAddNode ==
    /\ AppTick
    /\ \E nodeId \in {sA, sB, sC} :
         /\ addNode(graph, nodeId, nodeId, 0, 0).error = NoError
         /\ OnGraphChange(addNode(graph, nodeId, nodeId, 0, 0).graph, history)
         /\ last' = Call("addNode", nodeId, Null, NoError)

\* handleEdgeCreation on two different nodes of an unweighted graph
CanvasAddEdge ==
    /\ AppTick
    /\ \E sourceId \in MapKeys(graph.nodes), targetId \in MapKeys(graph.nodes) :
         /\ sourceId # targetId
         /\ addEdge(graph, sourceId, targetId, 1, Str0, Str0).error = NoError
         /\ OnGraphChange(addEdge(graph, sourceId, targetId, 1, Str0, Str0).graph,
                          history)
         /\ last' = Call("addEdge", sourceId, targetId, NoError)

DeleteNode ==
    /\ AppTick
    /\ \E nodeId \in MapKeys(graph.nodes) :
         /\ OnGraphChange(removeNode(graph, nodeId).graph,
               releasedHistory(history,
                   MapKeys(removeNode(graph, nodeId).graph.nodes),
                   MapKeys(removeNode(graph, nodeId).graph.edges)))
         /\ last' = Call("deleteNode", nodeId, Null, NoError)

DeleteEdge ==
    /\ AppTick
    /\ \E edgeId \in MapKeys(graph.edges) :
         /\ OnGraphChange(removeEdge(graph, edgeId).graph,
               releasedHistory(history, MapKeys(graph.nodes),
                               MapKeys(graph.edges) \ {edgeId}))
         /\ last' = Call("deleteEdge", edgeId, Null, NoError)

\* dragged: the position is written and onGraphChange is not called
DragNode ==
    /\ AppTick
    /\ \E nodeId \in MapKeys(graph.nodes), x \in {1} :
         /\ graph' = updateNodePosition(graph, nodeId, x, x)
         /\ last' = Call("dragged", nodeId, Null, NoError)
    /\ history' = aliasedHistory(history, graph')
    /\ UNCHANGED app

\* the save handler of the node dialog on a node whose label alone changes
EditNodeLabel ==
    /\ AppTick
    /\ \E nodeId \in MapKeys(graph.nodes) :
         /\ MapGet(graph.nodes, nodeId).label # sL
         /\ OnGraphChange(updateNode(graph, nodeId, [label |-> sL]),
               aliasedHistory(history, updateNode(graph, nodeId, [label |-> sL])))
         /\ last' = Call("updateNode", nodeId, Null, NoError)

\* the save handler of the edge dialog
EditEdge ==
    /\ AppTick
    /\ \E edgeId \in MapKeys(graph.edges) :
         /\ OnGraphChange(updateEdge(graph, edgeId, [weight |-> 2, label |-> sL]),
               aliasedHistory(history,
                   updateEdge(graph, edgeId, [weight |-> 2, label |-> sL])))
         /\ last' = Call("updateEdge", edgeId, Null, NoError)

\* undo and redo: the graph is read back from the state, if there is one
Restored(moved, op) ==
    /\ moved.value # -1
    /\ graph' = fromJSON(graph, moved.history.history[moved.value + 1].graph)
    /\ history' = releasedHistory(moved.history, {}, {})
    /\ last' = Call(op, Null, Null, NoError)
    /\ UNCHANGED app

Undo == AppTick /\ Restored(getPreviousState(history), "undo")

Redo == AppTick /\ Restored(getNextState(history), "redo")

\* loadHistoryState(stateId): getState leaves currentIndex alone
LoadHistoryState ==
    /\ AppTick
    /\ \E i \in 1..Len(history.history) :
         /\ graph' = fromJSON(graph, history.history[i].graph)
         /\ last' = Call("loadHistoryState", Null, Null, NoError)
    /\ history' = releasedHistory(history, {}, {})
    /\ UNCHANGED app

\* loadGraph on a file that holds a graph
LoadGraph ==
    /\ AppTick
    /\ \E data \in {toJSON(addNodes(NewGraph, <<sA>>)),
                    toJSON(addEdges(addNodes(NewGraph, <<sA, sB>>), <<sA, sB>>,
                                    <<<<1, 2>>>>))} :
         /\ graph' = fromJSON(graph, data)
         /\ last' = Call("loadGraph", Null, Null, NoError)
    /\ history' = saveToHistory(app, releasedHistory(history, {}, {}), graph', sLoaded)
    /\ UNCHANGED app

NextApp ==
    \/ RunDFS
    \/ AnimationEnds
    \/ ToggleAutoRecalculate
    \/ CanvasAddNode
    \/ CanvasAddEdge
    \/ DeleteNode
    \/ DeleteEdge
    \/ DragNode
    \/ EditNodeLabel
    \/ EditEdge
    \/ Undo
    \/ Redo
    \/ LoadHistoryState
    \/ LoadGraph

SpecApp == InitApp /\ [][NextApp]_vars

----------------------------------------------------------------------------
(* Properties of the Graph calls *)

Edges(g) == {g.edges[i].v : i \in 1..Len(g.edges)}

\* C1: after any sequence of Graph mutators, every stored edge has a source
\* and a target that are both ids of stored nodes.
C1_EdgesReferenceNodes ==
    \A e \in Edges(graph) :
        e.source \in MapKeys(graph.nodes) /\ e.target \in MapKeys(graph.nodes)

\* C2: after any sequence of Graph mutators, no two stored edges connect the
\* same unordered pair when isDirected is false, and no two have the same
\* ordered (source, target) pair when isDirected is true.
C2_NoParallelEdges ==
    \A i, j \in 1..Len(graph.edges) :
        LET e == graph.edges[i].v
            f == graph.edges[j].v
        IN  i # j =>
              /\ ~(e.source = f.source /\ e.target = f.target)
              /\ ~graph.isDirected => ~(e.source = f.target /\ e.target = f.source)

\* an edge between s and t: the ordered pair if directed, the unordered if not
HasEdgeBetween(g, s, t) ==
    \E e \in Edges(g) :
        \/ e.source = s /\ e.target = t
        \/ ~g.isDirected /\ e.source = t /\ e.target = s

\* C3: addEdge(s, t), called when an edge between s and t exists, raises an
\* error and leaves the number of stored edges as it was.
C3_DuplicateAddEdgeRejected ==
    [][(last'.op = "addEdge" /\ HasEdgeBetween(graph, last'.a1, last'.a2))
         => (last'.result # NoError /\ Len(graph'.edges) = Len(graph.edges))]_vars

\* an undirected graph has just rejected the reverse of a stored edge
C3_Witness ==
    /\ last.op = "addEdge"
    /\ last.result = "DuplicateEdge"
    /\ ~graph.isDirected
    /\ last.a1 # last.a2
    /\ \E e \in Edges(graph) : e.source = last.a2 /\ e.target = last.a1
    /\ ~\E e \in Edges(graph) : e.source = last.a1 /\ e.target = last.a2

\* C4: a mutator that raises an error (addNode, addEdge) leaves the whole
\* Graph state, the id counters included, as it was before the call.
C4_ErrorLeavesGraphUnchanged ==
    [][(last'.op \in {"addNode", "addEdge"} /\ last'.result # NoError)
         => graph' = graph]_vars

\* C5: when isWeighted is false, getEdgeWeight returns 1 for the endpoints of
\* every stored edge.
C5_UnweightedEffectiveWeightIsOne ==
    ~graph.isWeighted =>
        \A e \in Edges(graph) : getEdgeWeight(graph, e.source, e.target) = 1

Incident(e, nodeId) == e.source = nodeId \/ e.target = nodeId

\* C6: removeNode(id) on a present node returns true, removes that node and
\* exactly the edges whose source or target is id, and leaves every other
\* node and edge (and the flags and counters) unchanged; on an absent id it
\* returns false and changes nothing.
C6_RemoveNodeCascade ==
    [][last'.op = "removeNode" =>
          LET id == last'.a1
          IN  IF id \in MapKeys(graph.nodes)
              THEN /\ last'.result = TRUE
                   /\ graph'.nodes = SelectSeq(graph.nodes, LAMBDA n : n.k # id)
                   /\ graph'.edges =
                        SelectSeq(graph.edges, LAMBDA e : ~Incident(e.v, id))
                   /\ graph'.isDirected = graph.isDirected
                   /\ graph'.isWeighted = graph.isWeighted
                   /\ graph'.nodeIdCounter = graph.nodeIdCounter
                   /\ graph'.edgeIdCounter = graph.edgeIdCounter
              ELSE last'.result = FALSE /\ graph' = graph]_vars

\* removeNode has removed a node that edges pointed to, and an edge is left
C6_Witness ==
    /\ last.op = "removeNode"
    /\ last.result = TRUE
    /\ last.a1 \notin MapKeys(graph.nodes)
    /\ Len(graph.edges) > 0
    /\ \A e \in Edges(graph) : ~Incident(e, last.a1)
    /\ graph.edgeIdCounter > Len(graph.edges) + 1

\* C7: every node record is stored under a key equal to its id field, and
\* every edge record under a key equal to its id field.
C7_KeysEqualIds ==
    /\ \A i \in 1..Len(graph.nodes) : graph.nodes[i].k = graph.nodes[i].v.id
    /\ \A i \in 1..Len(graph.edges) : graph.edges[i].k = graph.edges[i].v.id

\* C8: h.fromJSON(g.toJSON()) leaves h with exactly g's nodes, edges, flags
\* and id counters, whatever h held before.
C8_RoundTripReproducesGraph ==
    last.op = "roundTrip" => last.result = graph

----------------------------------------------------------------------------
(* Properties of bfs *)

\* one edge leads from u to v
EdgeStep(g, u, v) ==
    \E e \in Edges(g) :
        \/ e.source = u /\ e.target = v
        \/ ~g.isDirected /\ e.source = v /\ e.target = u

\* the nodes that a path of at most k edges from s ends in
RECURSIVE Within(_, _, _)
Within(g, s, k) ==
    IF k = 0 THEN {s}
    ELSE LET W == Within(g, s, k - 1)
         IN  W \cup {v \in MapKeys(g.nodes) : \E u \in W : EdgeStep(g, u, v)}

\* the least number of edges of a path from s to v
MinHops(g, s, v) ==
    CHOOSE k \in 0..Len(g.nodes) :
        v \in Within(g, s, k) /\ (k = 0 \/ v \notin Within(g, s, k - 1))

\* every node is joined to every node by a path
Connected(g) ==
    /\ \A e \in Edges(g) : {e.source, e.target} \subseteq MapKeys(g.nodes)
    /\ \A s, v \in MapKeys(g.nodes) : v \in Within(g, s, Len(g.nodes))

\* C9: on a connected unweighted graph, bfs(start) reports for every node v
\* a distances[v] equal to the least number of edges of a path from start to
\* v, and bfs(start, target) reports that least number as distance, with a
\* path of distance + 1 nodes.
C9_BfsMinimumHops ==
    (/\ last.op = "bfs"
     /\ ~graph.isWeighted
     /\ Connected(graph)
     /\ last.a1 \in MapKeys(graph.nodes)
     /\ last.a2 \in MapKeys(graph.nodes) \cup {Null}) =>
        LET r == last.result
        IN  IF Truthy(last.a2)
            THEN /\ r.distance = MinHops(graph, last.a1, last.a2)
                 /\ Len(r.path) = r.distance + 1
            ELSE \A v \in MapKeys(graph.nodes) :
                    /\ MapHas(r.distances, v)
                    /\ MapGet(r.distances, v) = MinHops(graph, last.a1, v)

\* bfs has run to a target two edges away on a connected graph of four nodes
\* and four edges
C9_Witness ==
    /\ last.op = "bfs"
    /\ last.a1 \in MapKeys(graph.nodes)
    /\ Connected(graph)
    /\ Len(graph.nodes) = 4
    /\ Len(graph.edges) = 4
    /\ Truthy(last.a2)
    /\ last.result.distance = 2

\* nodes A, B, C, D and the undirected edges A-B, B-C, A-C, C-D
ScenarioGraph(g) ==
    /\ MapKeys(g.nodes) = {sA, sB, sC, sD}
    /\ ~g.isDirected
    /\ Len(g.edges) = 4
    /\ {{e.source, e.target} : e \in Edges(g)}
          = {{sA, sB}, {sB, sC}, {sA, sC}, {sC, sD}}

BfsScenarioRun ==
    last.op = "bfs" /\ ScenarioGraph(graph) /\ last.a1 = sA /\ last.a2 = sD

\* C10 as stated: on that graph bfs("A", "D") returns path [A, B, C, D],
\* distance 3 and found = true.
C10_BfsScenarioAsStated ==
    BfsScenarioRun =>
        /\ last.result.path = <<sA, sB, sC, sD>>
        /\ last.result.distance = 3
        /\ last.result.found = TRUE

\* C10 as amended: on that graph bfs("A", "D") returns the shortest path
\* [A, C, D], distance 2 and found = true.
C10_BfsScenarioShortest ==
    BfsScenarioRun =>
        /\ last.result.path = <<sA, sC, sD>>
        /\ last.result.distance = 2
        /\ last.result.found = TRUE

C10_Witness == BfsScenarioRun /\ last.result.found = TRUE

----------------------------------------------------------------------------
(* Properties of the spanning trees *)

\* the call threw
Threw(r) == "error" \in DOMAIN r

\* C11: on a connected weighted graph, prim(s) reports for every node s the
\* totalWeight that kruskal() reports.
C11_KruskalPrimSameWeight ==
    (/\ last.op = "prim"
     /\ graph.isWeighted
     /\ Connected(graph)
     /\ last.a1 \in MapKeys(graph.nodes)) =>
        last.result.totalWeight = kruskal(graph).totalWeight

\* the nodes that edges of T, taken in either direction, join to s in at most
\* k steps
RECURSIVE JoinedBy(_, _, _)
JoinedBy(T, s, k) ==
    IF k = 0 THEN {s}
    ELSE LET J == JoinedBy(T, s, k - 1)
         IN  J \cup {e.target : e \in {x \in T : x.source \in J}}
               \cup {e.source : e \in {x \in T : x.target \in J}}

\* the edges of T connect all nodes of g
SpansAll(g, T) ==
    \A s \in MapKeys(g.nodes) :
        MapKeys(g.nodes) \subseteq JoinedBy(T, s, Len(g.nodes))

RECURSIVE SumOfWeights(_)
SumOfWeights(T) ==
    IF T = {} THEN 0
    ELSE LET e == CHOOSE x \in T : TRUE
         IN  e.weight + SumOfWeights(T \ {e})

\* the spanning trees of g: n - 1 of its edges that connect all its nodes
SpanningTrees(g) ==
    {T \in SUBSET Edges(g) :
        Cardinality(T) = Len(g.nodes) - 1 /\ SpansAll(g, T)}

\* the edges of the graph that a list of result edges names
NamedEdges(g, mstEdges) ==
    {e \in Edges(g) : \E i \in 1..Len(mstEdges) :
        /\ mstEdges[i].id = e.id
        /\ mstEdges[i].source = e.source
        /\ mstEdges[i].target = e.target
        /\ mstEdges[i].weight = e.weight}

\* the weights 1, 2, 4, 3 on the edges A-B, B-C, A-C, C-D
ScenarioWeighted(g) ==
    /\ ScenarioGraph(g)
    /\ g.isWeighted
    /\ \A e \in Edges(g) :
          e.weight = IF {e.source, e.target} = {sA, sB} THEN 1
                     ELSE IF {e.source, e.target} = {sB, sC} THEN 2
                     ELSE IF {e.source, e.target} = {sA, sC} THEN 4
                     ELSE 3

\* C12: on a connected weighted undirected graph with n nodes, kruskal()
\* returns n - 1 edges of the graph that connect all nodes (so they hold no
\* cycle), totalWeight is the sum of their weights, no spanning tree of the
\* graph weighs less, and on A-B(1), B-C(2), A-C(4), C-D(3) the result is
\* {A-B, B-C, C-D} with totalWeight 6.
C12_KruskalMinimumSpanningTree ==
    (/\ last.op = "kruskal"
     /\ graph.isWeighted
     /\ ~graph.isDirected
     /\ Len(graph.nodes) >= 1
     /\ Connected(graph)) =>
        LET r == last.result
            T == NamedEdges(graph, r.mstEdges)
        IN  /\ Len(r.mstEdges) = Len(graph.nodes) - 1
            /\ Cardinality(T) = Len(r.mstEdges)
            /\ SpansAll(graph, T)
            /\ r.totalWeight = SumOfWeights(T)
            /\ \A S \in SpanningTrees(graph) : SumOfWeights(S) >= r.totalWeight
            /\ ScenarioWeighted(graph) =>
                 /\ {{e.source, e.target} : e \in T}
                       = {{sA, sB}, {sB, sC}, {sC, sD}}
                 /\ r.totalWeight = 6

\* kruskal has run on the graph A-B(1), B-C(2), A-C(4), C-D(3) and left
\* one of its four edges out
C12_Witness ==
    /\ last.op = "kruskal"
    /\ ScenarioWeighted(graph)
    /\ Len(graph.edges) = 4
    /\ Len(last.result.mstEdges) = 3

----------------------------------------------------------------------------
(* Properties of UnionFind *)

\* what connected(a, b) answers in the current state
Answers(a, b) == connected(unionFind, a, b).value

\* a chain of the union calls made so far joins a and b
Joined(a, b) == a = b \/ {a, b} \in unions

\* C13: over a fixed element set and under any sequence of union, find and
\* connected calls, connected(a, b) is true right after union(a, b) and ever
\* after, connected is reflexive, symmetric and transitive, and
\* connected(a, b) is true only if a chain of earlier unions joins a and b.
C13_ConnectedIsUnionClosure ==
    LET E == MapKeys(unionFind.parent)
    IN  /\ \A a, b \in E : Answers(a, b) <=> Joined(a, b)
        /\ \A a \in E : Answers(a, a)
        /\ \A a, b \in E : Answers(a, b) => Answers(b, a)
        /\ \A a, b, c \in E : (Answers(a, b) /\ Answers(b, c)) => Answers(a, c)
        /\ last.op = "union" => Answers(last.a1, last.a2)
        /\ last.op = "connected" => (last.result <=> Joined(last.a1, last.a2))

\* connected has answered true for two distinct elements in an object where
\* two trees of rank 1 were united
C13_Witness ==
    /\ last.op = "connected"
    /\ last.result = TRUE
    /\ last.a1 # last.a2
    /\ \E e \in MapKeys(unionFind.rank) : MapGet(unionFind.rank, e) = 2

----------------------------------------------------------------------------
(* Properties of the traversals *)

\* C14: on two graphs with the same node ids, the same edges and the same
\* directedness, built by inserting nodes and edges in different orders,
\* dfs(start, target) returns the same visitOrder and path, and
\* bfs(start, target) the same visitOrder, path and distances.
C14_TraversalIgnoresInsertionOrder ==
    /\ last.op = "dfsReordered" =>
          /\ last.result.first.visitOrder = last.result.second.visitOrder
          /\ last.result.first.path = last.result.second.path
    /\ last.op = "bfsReordered" =>
          /\ last.result.first.visitOrder = last.result.second.visitOrder
          /\ last.result.first.path = last.result.second.path
          /\ last.result.first.distances = last.result.second.distances

\* dfs has visited four nodes of a graph of three edges, and of the same
\* graph with its nodes and edges inserted in the reverse order
C14_Witness ==
    /\ last.op = "dfsReordered"
    /\ last.result.how = "reverse"
    /\ Len(graph.edges) = 3
    /\ Len(last.result.first.visitOrder) = 4
    /\ MapValues(rebuild(graph, "reverse").edges) # MapValues(graph.edges)

----------------------------------------------------------------------------
(* Properties of every algorithm call *)

\* C15: whenever isWeighted is false, kruskal() and prim(startId) throw and
\* return no result, whatever the graph holds and whatever startId is.
C15_UnweightedGraphRejected ==
    (last.op \in {"kruskal", "prim"} /\ ~graph.isWeighted) =>
        /\ Threw(last.result)
        /\ DOMAIN last.result = {"error"}

\* prim and kruskal have thrown on an unweighted graph of two edges, prim
\* with a start id the graph does not hold
C15_Witness ==
    /\ last.op = "prim"
    /\ last.a1 = sZ
    /\ ~graph.isWeighted
    /\ Len(graph.edges) = 2
    /\ Threw(last.result)
    /\ Threw(kruskal(graph))

\* C16: dfs and bfs throw for a startId that is no node and for a non-null
\* targetId that is no node, and prim throws for a non-null startId that is
\* no node.
C16_UnknownNodeRejected ==
    LET absent(id) == id # Null /\ id \notin MapKeys(graph.nodes)
    IN  /\ (last.op \in {"dfs", "bfs"} /\ (absent(last.a1) \/ absent(last.a2)))
              => Threw(last.result)
        /\ (last.op = "prim" /\ absent(last.a1)) => Threw(last.result)

\* the calls of GraphAlgorithms
AlgorithmOps ==
    {"dfs", "bfs", "kruskal", "prim", "compareMST", "detectCycles",
     "connectivityAnalysis", "shortestPath", "hasPath", "shortestDistances"}

----------------------------------------------------------------------------
(* Properties of dfs *)

\* the neighbours of v that seen does not hold
Unvisited(g, v, seen) ==
    {u \in MapKeys(g.nodes) :
        EdgeStep(g, v, u) /\ \A i \in 1..Len(seen) : seen[i] # u}

\* the one with the smallest ordering key
Smallest(S) == CHOOSE u \in S : \A w \in S \ {u} : compareNeighbors(u, w) < 0

\* the preorder of the recursive search: v is visited, then the search
\* descends into the smallest unvisited neighbour of v for as long as v has
\* one; seen holds the nodes visited so far, in order
RECURSIVE Descend(_, _, _), DescendFrom(_, _, _)
Descend(g, v, seen) == DescendFrom(g, v, Append(seen, v))

DescendFrom(g, v, seen) ==
    IF Unvisited(g, v, seen) = {} THEN seen
    ELSE DescendFrom(g, v, Descend(g, Smallest(Unvisited(g, v, seen)), seen))

Preorder(g, start) == Descend(g, start, <<>>)

\* the position of x in seq
PositionOf(seq, x) == CHOOSE i \in 1..Len(seq) : seq[i] = x

\* C18: dfs(start) visits in the preorder of the recursive depth-first
\* search that descends first into the unvisited neighbour with the smallest
\* ordering key: every node reachable from start once and no other node;
\* dfs(start, target) visits the prefix of that order that ends at target,
\* when target is reachable.
C18_DfsVisitsInPreorder ==
    (/\ last.op = "dfs"
     /\ last.a1 \in MapKeys(graph.nodes)
     /\ last.a2 \in MapKeys(graph.nodes) \cup {Null}) =>
        LET order == Preorder(graph, last.a1)
            reachable == Within(graph, last.a1, Len(graph.nodes))
            visitOrder == last.result.visitOrder
        IN  IF last.a2 = Null
            THEN /\ visitOrder = order
                 /\ {visitOrder[i] : i \in 1..Len(visitOrder)} = reachable
                 /\ Len(visitOrder) = Cardinality(reachable)
            ELSE last.a2 \in reachable =>
                    visitOrder = SubSeq(order, 1, PositionOf(order, last.a2))

\* dfs has visited the four nodes of a graph of four edges in an order in
\* which bfs does not visit them
C18_Witness ==
    /\ last.op = "dfs"
    /\ last.a1 \in MapKeys(graph.nodes)
    /\ last.a2 = Null
    /\ Len(graph.edges) = 4
    /\ Len(last.result.visitOrder) = 4
    /\ last.result.visitOrder # bfs(graph, last.a1, Null).visitOrder

\* C19: when dfs(start, target) returns found = true, path is not empty,
\* starts with start, ends with target, repeats no node, every consecutive
\* pair of it is joined by an edge (from the earlier to the later node when
\* directed) and distance is the path length minus 1; when it returns
\* found = false, path is empty and distance is -1.
C19_DfsPathIsAPath ==
    (/\ last.op = "dfs"
     /\ last.a1 \in MapKeys(graph.nodes)
     /\ last.a2 \in MapKeys(graph.nodes)) =>
        LET r == last.result
            path == r.path
        IN  IF r.found
            THEN /\ path # <<>>
                 /\ path[1] = last.a1
                 /\ path[Len(path)] = last.a2
                 /\ \A i, j \in 1..Len(path) : i # j => path[i] # path[j]
                 /\ \A i \in 1..(Len(path) - 1) : EdgeStep(graph, path[i], path[i + 1])
                 /\ r.distance = Len(path) - 1
            ELSE path = <<>> /\ r.distance = -1

\* dfs has found a target after visiting a node that is not on the path it
\* returns
C19_Witness ==
    /\ last.op = "dfs"
    /\ last.a1 \in MapKeys(graph.nodes)
    /\ last.a2 \in MapKeys(graph.nodes)
    /\ last.result.found
    /\ Len(last.result.path) = 3
    /\ Len(last.result.visitOrder) = 4

\* kruskal has returned a result for the weighted graph
KruskalReturned ==
    /\ last.op = "kruskal"
    /\ graph.isWeighted
    /\ ~Threw(last.result)

\* the efficiency reported is 100
FullEfficiency(r) ==
    r.statistics.efficiency.num = 100 * r.statistics.efficiency.den

\* the statement without a bound on the node count: on every connected
\* weighted graph kruskal reports an efficiency of 100
C20_EfficiencyAnyNodeCount ==
    (KruskalReturned /\ (isConnected(graph) \/ Connected(graph))) =>
        FullEfficiency(last.result)

\* C20: on every weighted graph of two nodes or more, the efficiency kruskal
\* reports is below 100 only when the graph is not connected: on every
\* connected one it is 100; on a graph of one node or none it is 0.
C20_EfficiencyOfConnected ==
    KruskalReturned =>
        IF Len(graph.nodes) >= 2
        THEN (isConnected(graph) \/ Connected(graph)) =>
                FullEfficiency(last.result)
        ELSE last.result.statistics.efficiency.num = 0

\* kruskal has returned for a connected graph of four nodes that has more
\* edges than a spanning tree
C20_Witness ==
    /\ KruskalReturned
    /\ isConnected(graph)
    /\ Len(graph.nodes) = 4
    /\ Len(graph.edges) = 4
    /\ FullEfficiency(last.result)

----------------------------------------------------------------------------
(* prim, step by step *)

\* the elements of a sequence
Range(seq) == {seq[i] : i \in 1..Len(seq)}

\* prim has returned a result for a weighted graph with nodes, started at a
\* node of the graph or at none
PrimReturned ==
    /\ last.op = "prim"
    /\ graph.isWeighted
    /\ Len(graph.nodes) > 0
    /\ last.a1 \in MapKeys(graph.nodes) \cup {Null}
    /\ ~Threw(last.result)

\* inMST as it was when the k-th edge of r was chosen
InMSTBefore(r, k) ==
    IF k = 1 THEN {r.startNode} ELSE Range(r.steps[k - 1].nodesInMST)

\* inMST when prim returned
InMSTAtReturn(r) ==
    IF r.steps = <<>> THEN {r.startNode}
    ELSE Range(r.steps[Len(r.steps)].nodesInMST)

\* the edges of g with exactly one endpoint in S
Boundary(g, S) ==
    {e \in Edges(g) : (e.source \in S) # (e.target \in S)}

\* when undirectedOnly holds, the statement is about undirected graphs alone
PrimIsGreedy(undirectedOnly) ==
    (PrimReturned /\ (undirectedOnly => ~graph.isDirected)) =>
        LET r == last.result
            reached == InMSTAtReturn(r)
        IN  /\ Len(r.mstEdges) = Len(r.steps)
            /\ \A k \in 1..Len(r.steps) :
                  LET chosen == r.steps[k].edge
                      before == InMSTBefore(r, k)
                  IN  /\ r.mstEdges[k] = chosen
                      /\ chosen \in Boundary(graph, before)
                      /\ \A e \in Boundary(graph, before) :
                            chosen.weight <= e.weight
                      /\ Range(r.steps[k].nodesInMST) =
                            before \cup {chosen.source, chosen.target}
            /\ \/ reached = MapKeys(graph.nodes)
               \/ Boundary(graph, reached) = {}
            /\ r.statistics.nodesReached = Cardinality(reached)
            /\ r.statistics.mstEdges = r.statistics.nodesReached - 1
            /\ r.statistics.isComplete <=>
                  (r.statistics.nodesReached = r.statistics.totalNodes)

\* C21: in prim(start) on a weighted graph every edge appended to mstEdges
\* has, when it is chosen, exactly one endpoint in inMST and a weight no
\* greater than that of any edge with exactly one endpoint in inMST; the loop
\* stops when inMST holds all nodes or no such edge exists; at return
\* mstEdges has nodesReached - 1 edges and isComplete holds iff nodesReached
\* equals totalNodes.
C21_PrimChoosesLightestBoundaryEdge == PrimIsGreedy(FALSE)

\* the same on undirected graphs alone
PrimGreedyOnUndirected == PrimIsGreedy(TRUE)

\* the fields of the record of prim and of its statistics
PrimFields ==
    {"algorithm", "startNode", "mstEdges", "totalWeight", "steps", "statistics"}

PrimStatisticsFields ==
    {"totalNodes", "mstEdges", "nodesReached", "isComplete", "efficiency"}

\* when withNodes holds, the statement is about graphs with a node alone
PrimRecordShape(withNodes) ==
    (/\ last.op = "prim"
     /\ graph.isWeighted
     /\ last.a1 \in MapKeys(graph.nodes) \cup {Null}
     /\ withNodes => Len(graph.nodes) > 0) =>
        /\ PrimFields \subseteq DOMAIN last.result
        /\ last.result.algorithm = "Prim"
        /\ PrimStatisticsFields \subseteq DOMAIN last.result.statistics

\* C22: for every weighted graph, the graph with no nodes included, prim()
\* returns a record with algorithm = "Prim", startNode, mstEdges,
\* totalWeight, steps and a statistics record with totalNodes, mstEdges,
\* nodesReached, isComplete and efficiency.
C22_PrimRecordFields == PrimRecordShape(FALSE)

\* the same on the graphs that have a node
PrimRecordFieldsWithNodes == PrimRecordShape(TRUE)

\* an edge identified by its unordered pair of endpoints and its weight
EdgeIdentity(e) == <<{e.source, e.target}, e.weight>>

\* the edges of a list, so identified
EdgeIdentities(edges) == {EdgeIdentity(edges[i]) : i \in 1..Len(edges)}

\* C23: compareMST().comparison.identical is true exactly when the edge list
\* of kruskal() and the edge list of prim() hold the same edges, an edge
\* being its unordered pair of endpoints and its weight.
C23_IdenticalIffSameEdges ==
    (last.op = "compareMST" /\ ~Threw(last.result)) =>
        (last.result.comparison.identical <=>
            EdgeIdentities(last.result.results.kruskal.mstEdges) =
                EdgeIdentities(last.result.results.prim.mstEdges))

----------------------------------------------------------------------------
(* Cycles *)

\* the nodes joined to s by at most k of the edges E, taken in either
\* direction
RECURSIVE JoinedWithin(_, _, _)
JoinedWithin(E, s, k) ==
    IF k = 0 THEN {s}
    ELSE LET W == JoinedWithin(E, s, k - 1)
         IN  W \cup {e.target : e \in {x \in E : x.source \in W}}
               \cup {e.source : e \in {x \in E : x.target \in W}}

\* a directed cycle: an edge whose source is reached from its target
HasDirectedCycle(g) ==
    \E e \in Edges(g) : e.source \in Within(g, e.target, Len(g.nodes))

\* a closed walk that reuses no edge: an edge whose ends are joined by the
\* other edges
HasUndirectedCycle(g) ==
    \E e \in Edges(g) :
        e.target \in JoinedWithin(Edges(g) \ {e}, e.source, Len(g.edges))

ContainsCycle(g) ==
    IF g.isDirected THEN HasDirectedCycle(g) ELSE HasUndirectedCycle(g)

\* when asBuilt holds, the statement is about the graphs whose type was set
\* before their edges were added
HasCyclesIsRight(asBuilt) ==
    (last.op = "hasCycles" /\ (asBuilt => calls = 0)) =>
        IF Len(graph.nodes) >= 3
        THEN last.result <=> ContainsCycle(graph)
        ELSE last.result = FALSE

\* C24: on every graph of three nodes or more hasCycles() returns true iff
\* the graph contains a cycle (a directed cycle when isDirected, a closed
\* walk that reuses no edge otherwise); on every graph of two nodes or fewer
\* it returns false.
C24_HasCyclesIffCycle == HasCyclesIsRight(FALSE)

\* the same on the graphs as built
HasCyclesOnBuiltGraphs == HasCyclesIsRight(TRUE)

----------------------------------------------------------------------------
(* Components *)

\* a path leads from u to v or from v to u
PathBetween(g, u, v) ==
    \/ v \in Within(g, u, Len(g.nodes))
    \/ u \in Within(g, v, Len(g.nodes))

\* when undirectedOnly holds, the statement is about undirected graphs alone
ComponentsAreRight(undirectedOnly) ==
    (last.op = "connectivityAnalysis" /\ (undirectedOnly => ~graph.isDirected)) =>
        LET r == last.result
            comps == r.components
            of(u) == {i \in 1..Len(comps) : u \in Range(comps[i])}
        IN  /\ \A i \in 1..Len(comps) :
                  /\ comps[i] # <<>>
                  /\ Cardinality(Range(comps[i])) = Len(comps[i])
            /\ \A i, j \in 1..Len(comps) :
                  i # j => Range(comps[i]) \cap Range(comps[j]) = {}
            /\ UNION {Range(comps[i]) : i \in 1..Len(comps)} = MapKeys(graph.nodes)
            /\ \A u, v \in MapKeys(graph.nodes) :
                  (of(u) = of(v)) <=> PathBetween(graph, u, v)
            /\ r.componentCount = Len(comps)
            /\ IF comps = <<>> THEN r.largestComponent = <<>>
               ELSE /\ \E i \in 1..Len(comps) : r.largestComponent = comps[i]
                    /\ \A i \in 1..Len(comps) :
                          Len(comps[i]) <= Len(r.largestComponent)
            /\ r.isConnected = isConnected(graph)

\* C25: connectivityAnalysis() returns components that are pairwise disjoint
\* and together hold every node once; two nodes share a component iff a path
\* connects them; componentCount is the number of components;
\* largestComponent is a component of the greatest size; isConnected equals
\* Graph.isConnected() on the same graph.
C25_ComponentsPartitionByPaths == ComponentsAreRight(FALSE)

\* the same on undirected graphs alone
ComponentsOnUndirected == ComponentsAreRight(TRUE)

----------------------------------------------------------------------------
(* What a successful insertion leaves alone *)

\* the entries of a Map
Entries(m) == {m[i] : i \in 1..Len(m)}

\* every entry stored before the call is stored unchanged after it, and one
\* entry more is stored
GrowsByOne(before, after) ==
    /\ Len(after) = Len(before) + 1
    /\ Entries(before) \subseteq Entries(after)

AddNodeGrowsByOne ==
    [][(last'.op = "addNode" /\ last'.result = NoError) =>
            GrowsByOne(graph.nodes, graph'.nodes)]_vars

AddEdgeGrowsByOne ==
    [][(last'.op = "addEdge" /\ last'.result = NoError) =>
            GrowsByOne(graph.edges, graph'.edges)]_vars

\* C28: every addEdge call that returns without error stores one edge more
\* and leaves every edge stored before the call stored and unchanged,
\* whether the edge id was generated or passed; every addNode call that
\* returns without error stores one node more.
C28_InsertionGrowsByOne ==
    [][/\ (last'.op = "addEdge" /\ last'.result = NoError) =>
            GrowsByOne(graph.edges, graph'.edges)
       /\ (last'.op = "addNode" /\ last'.result = NoError) =>
            Len(graph'.nodes) = Len(graph.nodes) + 1]_vars

----------------------------------------------------------------------------
(* Loops and the density *)

NoSelfLoop(g) == \A e \in Edges(g) : e.source # e.target

\* C29: no stored edge has its source equal to its target, so the number of
\* edges never exceeds maxPossibleEdges and the density never exceeds 100.
C29_NoSelfLoopDensityAtMost100 ==
    /\ NoSelfLoop(graph)
    /\ Len(graph.edges) <= maxPossibleEdges(graph)
    /\ density(graph).num <= 100 * density(graph).den

----------------------------------------------------------------------------
(* The size of the history and its index *)

HistoryWithinBounds(h) ==
    /\ Len(h.history) <= maxHistorySize
    /\ IF h.history = <<>> THEN h.currentIndex = -1
       ELSE 0 <= h.currentIndex /\ h.currentIndex < Len(h.history)

\* C30: after any sequence of GraphHistory operations the history holds at
\* most maxHistorySize states, and currentIndex is -1 when the history is
\* empty and otherwise 0 <= currentIndex < history.length.
C30_HistoryWithinBounds == HistoryWithinBounds(history)

----------------------------------------------------------------------------
(* Properties of GraphApp *)

\* r is null, or it is what the run it records returns on the graph g
ComputedOn(r, g) ==
    \/ r = NoResults
    \/ r = dfs(g, r.startNode, r.targetNode)

\* the result the application holds belongs to the graph it holds
ResultIsCurrent == ComputedOn(app.lastAlgorithmResults, graph)

\* every state of the history pairs its graph with a result of that graph
SavedResultsMatch ==
    \A i \in 1..Len(history.history) :
        ComputedOn(history.history[i].algorithmResults,
                   fromJSON(NewGraph, history.history[i].taken))

\* C26: after any interleaving of algorithm runs and graph changes (edits
\* with auto-recalculation on or off, undo, redo, loading a file or a history
\* state) lastAlgorithmResults is null or was computed on the graph as it is
\* now, and every state saved to the history pairs a graph snapshot with a
\* result computed on that same graph or with null.
C26_ResultsBelongToGraph == ResultIsCurrent /\ SavedResultsMatch

\* every state of the history still holds the graph that saveState put in it
SnapshotsKeepValues ==
    \A i \in 1..Len(history.history) :
        history.history[i].graph = history.history[i].taken

\* undo and redo leave the graph as it was when the state they return was
\* saved
RestoreReproduces ==
    last.op \in {"undo", "redo"} =>
        toJSON(graph) = history.history[history.currentIndex + 1].taken

\* C27: a snapshot returned by toJSON(), and so the graph of a history state
\* stored by saveState, keeps the node and edge field values it had when it
\* was taken under every later mutation of the graph (addNode, removeNode,
\* addEdge, removeEdge, updateNode, updateNodePosition, updateEdge), and
\* restoring the state with fromJSON reproduces the graph of snapshot time.
C27_SnapshotKeepsValues == SnapshotsKeepValues /\ RestoreReproduces

====
